---- MODULE Spec2Model ----
(***************************************************************************)
(* BBR+ congestion control (net/ipv4/tcp_bbrplus.c) as a state machine.    *)
(*                                                                         *)
(* The state is one record, sk, holding the fields of struct bbrplus and   *)
(* the fields of the socket (tcp_sock / sock / inet_connection_sock) that  *)
(* the module reads or writes.  Every C function is an operator from the   *)
(* socket record (and the rate sample) to the socket record, composed in   *)
(* the order of the C statements.                                          *)
(*                                                                         *)
(* Number representation: all quantities are kept far below 2^31, where    *)
(* u32/u64 arithmetic and the natural numbers agree.  The one u32 value    *)
(* near 2^32 is the "no RTT sample" value ~0U of min_rtt_us; it is kept in *)
(* two's complement (U32_MAX = -1) and the comparisons and products that   *)
(* read min_rtt_us are the unsigned ones (U32Gt, U32Mul).                  *)
(***************************************************************************)
EXTENDS Integers, Sequences, FiniteSets, TLC

(***************************************************************************)
(* Constants of the program                                                *)
(***************************************************************************)
BW_SCALE == 24
BW_UNIT == 16777216
BBRPLUS_SCALE == 8
BBRPLUS_UNIT == 256

BBRPLUS_STARTUP == 0
BBRPLUS_DRAIN == 1
BBRPLUS_PROBE_BW == 2
BBRPLUS_PROBE_RTT == 3

CYCLE_LEN == 8
bbrplus_bw_rtts == CYCLE_LEN + 2
bbrplus_min_rtt_win_sec == 10
bbrplus_probe_rtt_mode_ms == 200
bbrplus_min_tso_rate == 1200000
bbrplus_high_gain == (BBRPLUS_UNIT * 2885) \div 1000 + 1
bbrplus_drain_gain == (BBRPLUS_UNIT * 1000) \div 2885
bbrplus_cwnd_gain == BBRPLUS_UNIT * 2

BBRPLUS_BW_PROBE_UP == 0
BBRPLUS_BW_PROBE_DOWN == 1
BBRPLUS_BW_PROBE_CRUISE == 2

bbrplus_pacing_gain ==
    [i \in 0..7 |-> IF i = 0 THEN (BBRPLUS_UNIT * 5) \div 4
                    ELSE IF i = 1 THEN (BBRPLUS_UNIT * 3) \div 4
                    ELSE BBRPLUS_UNIT]
bbrplus_cycle_rand == 7
bbrplus_cwnd_min_target == 4
bbrplus_full_bw_thresh == (BBRPLUS_UNIT * 5) \div 4
bbrplus_full_bw_cnt == 3
bbrplus_lt_intvl_min_rtts == 4
bbrplus_lt_loss_thresh == 50
bbrplus_lt_bw_ratio == BBRPLUS_UNIT \div 8
bbrplus_lt_bw_diff == 4000 \div 8
bbrplus_lt_bw_max_rtts == 48
bbrplus_extra_acked_gain == BBRPLUS_UNIT
bbrplus_extra_acked_win_rtts == 10
bbrplus_ack_epoch_acked_reset_thresh == 1048576
bbrplus_extra_acked_max_us == 100 * 1000
bbrplus_drain_to_target == TRUE

(* Kernel constants the file uses (include/net/tcp.h, include/linux/time.h) *)
TCP_INIT_CWND == 10
TCP_INFINITE_SSTHRESH == 2147483647
TCP_CA_Open == 0
TCP_CA_Recovery == 3
TCP_CA_Loss == 4
CA_EVENT_TX_START == 0
CA_EVENT_CWND_RESTART == 1
USEC_PER_SEC == 1000000
USEC_PER_MSEC == 1000
HZ == 100
U32_MAX == -1

(***************************************************************************)
(* Arithmetic helpers                                                      *)
(***************************************************************************)
Min(a, b) == IF a <= b THEN a ELSE b
Max(a, b) == IF a >= b THEN a ELSE b
Abs(a) == IF a < 0 THEN -a ELSE a

(* (a * b) >> k for even k and 0 <= a, b < 2^30, without forming a * b:    *)
(* with h = 2^(k/2), a = a1 h + a0 and b = b1 h + b0,                       *)
(* a b = a1 b1 h^2 + (a1 b0 + a0 b1) h + a0 b0.                             *)
MulShr(a, b, k) ==
    LET h  == 2 ^ (k \div 2)
        a1 == a \div h
        a0 == a % h
        b1 == b \div h
        b0 == b % h
    IN  a1 * b1 + (a1 * b0 + a0 * b1 + (a0 * b0) \div h) \div h

(* Unsigned comparison and product of u32 values kept in two's complement. *)
U32Gt(a, b) == IF (a < 0) = (b < 0) THEN a > b ELSE a < 0
U32Mul(a, b) == a * b

(* before()/after() of include/net/tcp.h and time_after(): (s32)(a-b) < 0. *)
before(a, b) == a - b < 0
after(a, b) == before(b, a)

(***************************************************************************)
(* lib/win_minmax.c: the windowed max filter (three samples [t, v])        *)
(***************************************************************************)
minmax_get(m) == m[1].v

minmax_reset(t, meas) ==
    LET val == [t |-> t, v |-> meas] IN << val, val, val >>

minmax_subwin_update(m, win, val) ==
    LET dt == val.t - m[1].t IN
    IF dt > win
    THEN LET m1 == << m[2], m[3], val >> IN
         IF val.t - m1[1].t > win THEN << m1[2], m1[3], val >> ELSE m1
    ELSE IF m[2].t = m[1].t /\ dt > win \div 4
    THEN << m[1], val, val >>
    ELSE IF m[3].t = m[2].t /\ dt > win \div 2
    THEN << m[1], m[2], val >>
    ELSE m

minmax_running_max(m, win, t, meas) ==
    LET val == [t |-> t, v |-> meas] IN
    IF val.v >= m[1].v \/ val.t - m[3].t > win
    THEN minmax_reset(t, meas)
    ELSE IF val.v >= m[2].v
    THEN minmax_subwin_update(<< m[1], val, val >>, win, val)
    ELSE IF val.v >= m[3].v
    THEN minmax_subwin_update(<< m[1], m[2], val >>, win, val)
    ELSE minmax_subwin_update(m, win, val)

(***************************************************************************)
(* Host services the file calls                                            *)
(***************************************************************************)
tcp_jiffies32(sk) == sk.tcp_mstamp \div (USEC_PER_SEC \div HZ)
msecs_to_jiffies(ms) == (ms * HZ + 999) \div 1000
tcp_stamp_us_delta(t1, t0) == Max(t1 - t0, 0)
tcp_packets_in_flight(e) == e.packets_in_flight
tcp_send_head(e) == e.send_head
tcp_snd_wnd_test(e) == e.snd_wnd_test
prandom_u32_max(r, ep_ro) == r % ep_ro
tcp_mss_to_mtu(sk, mss) == mss + sk.hdr_len
GSO_MAX_BYTES == 65279
tcp_tso_autosize(sk, mss_now, min_tso_segs) ==
    Max(Min(sk.sk_pacing_rate \div 1024, GSO_MAX_BYTES) \div mss_now, min_tso_segs)

(***************************************************************************)
(* Accessors                                                               *)
(***************************************************************************)
bbrplus_full_bw_reached(sk) == sk.full_bw_cnt >= bbrplus_full_bw_cnt

(* bbrplus_set_cycle_idx moving the phase without setting its gain.        *)
set_cycle_idx_keeps_gain(sk, cycle_idx) ==
    [sk EXCEPT !.cycle_idx = cycle_idx % 8]

bbrplus_set_cycle_idx(sk, cycle_idx) ==
    [sk EXCEPT !.cycle_idx = cycle_idx % 8,
               !.pacing_gain = IF sk.lt_use_bw THEN BBRPLUS_UNIT
                               ELSE bbrplus_pacing_gain[cycle_idx % 8]]

bbrplus_extra_acked(sk) == Max(sk.extra_acked[1], sk.extra_acked[2])

bbrplus_max_bw(sk) == minmax_get(sk.bw)

bbrplus_bw(sk) == IF sk.lt_use_bw THEN sk.lt_bw ELSE bbrplus_max_bw(sk)

bbrplus_rate_bytes_per_sec(sk, rate, gain) ==
    MulShr(MulShr(rate * tcp_mss_to_mtu(sk, sk.mss_cache), gain, BBRPLUS_SCALE),
           USEC_PER_SEC, BW_SCALE)

bbrplus_bw_to_pacing_rate(sk, bw, gain) ==
    Min(bbrplus_rate_bytes_per_sec(sk, bw, gain), sk.sk_max_pacing_rate)

bbrplus_init_pacing_rate_from_rtt(sk) ==
    LET seen   == sk.srtt_us # 0
        rtt_us == IF seen THEN Max(sk.srtt_us \div 8, 1) ELSE USEC_PER_MSEC
        bw     == (sk.snd_cwnd * BW_UNIT) \div rtt_us
        sk1    == IF seen THEN [sk EXCEPT !.has_seen_rtt = TRUE] ELSE sk
    IN  [sk1 EXCEPT !.sk_pacing_rate =
                        bbrplus_bw_to_pacing_rate(sk1, bw, bbrplus_high_gain)]

set_pacing_rate_never_lowers(sk, bw, gain) ==
    LET rate == bbrplus_bw_to_pacing_rate(sk, bw, gain)
        sk1  == IF ~sk.has_seen_rtt /\ sk.srtt_us # 0
                THEN bbrplus_init_pacing_rate_from_rtt(sk) ELSE sk
    IN  IF rate > sk1.sk_pacing_rate
        THEN [sk1 EXCEPT !.sk_pacing_rate = rate] ELSE sk1

bbrplus_set_pacing_rate(sk, bw, gain) ==
    LET rate == bbrplus_bw_to_pacing_rate(sk, bw, gain)
        sk1  == IF ~sk.has_seen_rtt /\ sk.srtt_us # 0
                THEN bbrplus_init_pacing_rate_from_rtt(sk) ELSE sk
    IN  IF bbrplus_full_bw_reached(sk1) \/ rate > sk1.sk_pacing_rate
        THEN [sk1 EXCEPT !.sk_pacing_rate = rate] ELSE sk1

bbrplus_tso_segs_goal(sk) == sk.tso_segs_goal

bbrplus_set_tso_segs_goal(sk) ==
    LET min_segs == IF sk.sk_pacing_rate < bbrplus_min_tso_rate \div 8 THEN 1 ELSE 2
    IN  [sk EXCEPT !.tso_segs_goal =
                       Min(tcp_tso_autosize(sk, sk.mss_cache, min_segs), 127)]

save_cwnd_always_overwrites(sk) ==
    [sk EXCEPT !.prior_cwnd = sk.snd_cwnd]

bbrplus_save_cwnd(sk) ==
    IF sk.prev_ca_state < TCP_CA_Recovery /\ sk.mode # BBRPLUS_PROBE_RTT
    THEN [sk EXCEPT !.prior_cwnd = sk.snd_cwnd]
    ELSE [sk EXCEPT !.prior_cwnd = Max(sk.prior_cwnd, sk.snd_cwnd)]

(* bbrplus_cwnd_event pacing the restart at the current probe gain.        *)
cwnd_event_at_probe_gain(sk, event) ==
    IF event = CA_EVENT_TX_START /\ sk.app_limited # 0
    THEN LET sk1 == [sk EXCEPT !.idle_restart = TRUE,
                               !.ack_epoch_mstamp = sk.tcp_mstamp,
                               !.ack_epoch_acked = 0]
         IN  IF sk1.mode = BBRPLUS_PROBE_BW
             THEN bbrplus_set_pacing_rate(sk1, bbrplus_bw(sk1), sk1.pacing_gain)
             ELSE sk1
    ELSE sk

bbrplus_cwnd_event(sk, event) ==
    IF event = CA_EVENT_TX_START /\ sk.app_limited # 0
    THEN LET sk1 == [sk EXCEPT !.idle_restart = TRUE,
                               !.ack_epoch_mstamp = sk.tcp_mstamp,
                               !.ack_epoch_acked = 0]
         IN  IF sk1.mode = BBRPLUS_PROBE_BW
             THEN bbrplus_set_pacing_rate(sk1, bbrplus_bw(sk1), BBRPLUS_UNIT)
             ELSE sk1
    ELSE sk

(***************************************************************************)
(* Target cwnd                                                             *)
(***************************************************************************)
bbrplus_bdp(sk, bw, gain) ==
    IF sk.min_rtt_us = U32_MAX
    THEN TCP_INIT_CWND
    ELSE LET w == bw * sk.min_rtt_us
         IN  (MulShr(w, gain, BBRPLUS_SCALE) + BW_UNIT - 1) \div BW_UNIT

bbrplus_quantization_budget(sk, cwnd, gain) ==
    cwnd + 3 * bbrplus_tso_segs_goal(sk)

bbrplus_inflight(sk, bw, gain) ==
    bbrplus_quantization_budget(sk, bbrplus_bdp(sk, bw, gain), gain)

bbrplus_ack_aggregation_cwnd(sk) ==
    IF bbrplus_extra_acked_gain # 0 /\ bbrplus_full_bw_reached(sk)
    THEN LET max_aggr_cwnd == MulShr(bbrplus_bw(sk), bbrplus_extra_acked_max_us,
                                     BW_SCALE)
             aggr_cwnd     == (bbrplus_extra_acked_gain * bbrplus_extra_acked(sk))
                                  \div BBRPLUS_UNIT
         IN  Min(aggr_cwnd, max_aggr_cwnd)
    ELSE 0

(* bbrplus_set_cwnd_to_recover_or_restore clearing restore_cwnd without    *)
(* restoring the cwnd.                                                     *)
set_cwnd_to_recover_without_restore(sk, rs, e, acked) ==
    LET prev_state == sk.prev_ca_state
        state      == sk.icsk_ca_state
        cwnd0      == sk.snd_cwnd
        cwnd1      == IF rs.losses > 0 THEN Max(cwnd0 - rs.losses, 1) ELSE cwnd0
        entering   == state = TCP_CA_Recovery /\ prev_state # TCP_CA_Recovery
        exiting    == ~entering /\ prev_state >= TCP_CA_Recovery
                               /\ state < TCP_CA_Recovery
        cwnd2      == IF entering THEN tcp_packets_in_flight(e) + acked ELSE cwnd1
        sk1        == IF entering
                      THEN [sk EXCEPT !.packet_conservation = TRUE,
                                      !.next_rtt_delivered = sk.delivered]
                      ELSE IF exiting
                      THEN [sk EXCEPT !.restore_cwnd = TRUE,
                                      !.packet_conservation = FALSE]
                      ELSE sk
        sk2        == [sk1 EXCEPT !.prev_ca_state = state]
        cwnd3      == cwnd2
        sk3        == [sk2 EXCEPT !.restore_cwnd = FALSE]
    IN  IF sk3.packet_conservation
        THEN [sk |-> sk3, cwnd |-> Max(cwnd3, tcp_packets_in_flight(e) + acked),
              conserve |-> TRUE]
        ELSE [sk |-> sk3, cwnd |-> cwnd3, conserve |-> FALSE]

(* bbrplus_set_cwnd_to_recover_or_restore starting packet conservation     *)
(* only when the previous state was below Recovery.                        *)
set_cwnd_to_recover_from_below(sk, rs, e, acked) ==
    LET prev_state == sk.prev_ca_state
        state      == sk.icsk_ca_state
        cwnd0      == sk.snd_cwnd
        cwnd1      == IF rs.losses > 0 THEN Max(cwnd0 - rs.losses, 1) ELSE cwnd0
        entering   == state = TCP_CA_Recovery /\ prev_state < TCP_CA_Recovery
        exiting    == ~entering /\ prev_state >= TCP_CA_Recovery
                               /\ state < TCP_CA_Recovery
        cwnd2      == IF entering THEN tcp_packets_in_flight(e) + acked ELSE cwnd1
        sk1        == IF entering
                      THEN [sk EXCEPT !.packet_conservation = TRUE,
                                      !.next_rtt_delivered = sk.delivered]
                      ELSE IF exiting
                      THEN [sk EXCEPT !.restore_cwnd = TRUE,
                                      !.packet_conservation = FALSE]
                      ELSE sk
        sk2        == [sk1 EXCEPT !.prev_ca_state = state]
        cwnd3      == IF sk2.restore_cwnd THEN Max(cwnd2, sk2.prior_cwnd) ELSE cwnd2
        sk3        == [sk2 EXCEPT !.restore_cwnd = FALSE]
    IN  IF sk3.packet_conservation
        THEN [sk |-> sk3, cwnd |-> Max(cwnd3, tcp_packets_in_flight(e) + acked),
              conserve |-> TRUE]
        ELSE [sk |-> sk3, cwnd |-> cwnd3, conserve |-> FALSE]

(* bbrplus_set_cwnd_to_recover_or_restore flooring the window at 0 after   *)
(* the losses and conserving it as it is.                                  *)
set_cwnd_to_recover_down_to_zero(sk, rs, e, acked) ==
    LET prev_state == sk.prev_ca_state
        state      == sk.icsk_ca_state
        cwnd0      == sk.snd_cwnd
        cwnd1      == IF rs.losses > 0 THEN Max(cwnd0 - rs.losses, 0) ELSE cwnd0
        entering   == state = TCP_CA_Recovery /\ prev_state # TCP_CA_Recovery
        exiting    == ~entering /\ prev_state >= TCP_CA_Recovery
                               /\ state < TCP_CA_Recovery
        cwnd2      == IF entering THEN tcp_packets_in_flight(e) + acked ELSE cwnd1
        sk1        == IF entering
                      THEN [sk EXCEPT !.packet_conservation = TRUE,
                                      !.next_rtt_delivered = sk.delivered]
                      ELSE IF exiting
                      THEN [sk EXCEPT !.restore_cwnd = TRUE,
                                      !.packet_conservation = FALSE]
                      ELSE sk
        sk2        == [sk1 EXCEPT !.prev_ca_state = state]
        cwnd3      == IF sk2.restore_cwnd THEN Max(cwnd2, sk2.prior_cwnd) ELSE cwnd2
        sk3        == [sk2 EXCEPT !.restore_cwnd = FALSE]
    IN  IF sk3.packet_conservation
        THEN [sk |-> sk3, cwnd |-> cwnd3,
              conserve |-> TRUE]
        ELSE [sk |-> sk3, cwnd |-> cwnd3, conserve |-> FALSE]

(* Returns [sk, cwnd, conserve]: the socket, *new_cwnd and the return value. *)
bbrplus_set_cwnd_to_recover_or_restore(sk, rs, e, acked) ==
    LET prev_state == sk.prev_ca_state
        state      == sk.icsk_ca_state
        cwnd0      == sk.snd_cwnd
        cwnd1      == IF rs.losses > 0 THEN Max(cwnd0 - rs.losses, 1) ELSE cwnd0
        entering   == state = TCP_CA_Recovery /\ prev_state # TCP_CA_Recovery
        exiting    == ~entering /\ prev_state >= TCP_CA_Recovery
                               /\ state < TCP_CA_Recovery
        cwnd2      == IF entering THEN tcp_packets_in_flight(e) + acked ELSE cwnd1
        sk1        == IF entering
                      THEN [sk EXCEPT !.packet_conservation = TRUE,
                                      !.next_rtt_delivered = sk.delivered]
                      ELSE IF exiting
                      THEN [sk EXCEPT !.restore_cwnd = TRUE,
                                      !.packet_conservation = FALSE]
                      ELSE sk
        sk2        == [sk1 EXCEPT !.prev_ca_state = state]
        cwnd3      == IF sk2.restore_cwnd THEN Max(cwnd2, sk2.prior_cwnd) ELSE cwnd2
        sk3        == [sk2 EXCEPT !.restore_cwnd = FALSE]
    IN  IF sk3.packet_conservation
        THEN [sk |-> sk3, cwnd |-> Max(cwnd3, tcp_packets_in_flight(e) + acked),
              conserve |-> TRUE]
        ELSE [sk |-> sk3, cwnd |-> cwnd3, conserve |-> FALSE]

(* bbrplus_set_cwnd without the early return on an ACK that newly          *)
(* acknowledges nothing.                                                   *)
set_cwnd_on_every_ack(sk, rs, e, acked, bw, gain) ==
    LET r       == bbrplus_set_cwnd_to_recover_or_restore(sk, rs, e, acked)
        sk1     == r.sk
        target0 == bbrplus_bdp(sk1, bw, gain)
                       + bbrplus_ack_aggregation_cwnd(sk1)
        target  == bbrplus_quantization_budget(sk1, target0, gain)
        cwnd1   == IF bbrplus_full_bw_reached(sk1)
                   THEN Min(r.cwnd + acked, target)
                   ELSE IF r.cwnd < target \/ sk1.delivered < TCP_INIT_CWND
                   THEN r.cwnd + acked
                   ELSE r.cwnd
        cwnd    == IF r.conserve THEN r.cwnd
                   ELSE Max(cwnd1, bbrplus_cwnd_min_target)
        capped  == Min(cwnd, sk1.snd_cwnd_clamp)
    IN  [sk1 EXCEPT !.snd_cwnd =
                        IF sk1.mode = BBRPLUS_PROBE_RTT
                        THEN Min(capped, bbrplus_cwnd_min_target)
                        ELSE capped]

(* bbrplus_set_cwnd without the floor of bbrplus_cwnd_min_target.          *)
set_cwnd_without_floor(sk, rs, e, acked, bw, gain) ==
    IF acked = 0
    THEN sk
    ELSE LET r       == bbrplus_set_cwnd_to_recover_or_restore(sk, rs, e, acked)
             sk1     == r.sk
             target0 == bbrplus_bdp(sk1, bw, gain)
                            + bbrplus_ack_aggregation_cwnd(sk1)
             target  == bbrplus_quantization_budget(sk1, target0, gain)
             cwnd1   == IF bbrplus_full_bw_reached(sk1)
                        THEN Min(r.cwnd + acked, target)
                        ELSE IF r.cwnd < target \/ sk1.delivered < TCP_INIT_CWND
                        THEN r.cwnd + acked
                        ELSE r.cwnd
             cwnd    == IF r.conserve THEN r.cwnd ELSE cwnd1
             capped  == Min(cwnd, sk1.snd_cwnd_clamp)
         IN  [sk1 EXCEPT !.snd_cwnd =
                             IF sk1.mode = BBRPLUS_PROBE_RTT
                             THEN Min(capped, bbrplus_cwnd_min_target)
                             ELSE capped]

(* bbrplus_set_cwnd cutting the window to the target before the pipe is    *)
(* known to be full.                                                       *)
set_cwnd_always_cuts(sk, rs, e, acked, bw, gain) ==
    IF acked = 0
    THEN sk
    ELSE LET r       == bbrplus_set_cwnd_to_recover_or_restore(sk, rs, e, acked)
             sk1     == r.sk
             target0 == bbrplus_bdp(sk1, bw, gain)
                            + bbrplus_ack_aggregation_cwnd(sk1)
             target  == bbrplus_quantization_budget(sk1, target0, gain)
             cwnd1   == Min(r.cwnd + acked, target)
             cwnd    == IF r.conserve THEN r.cwnd
                        ELSE Max(cwnd1, bbrplus_cwnd_min_target)
             capped  == Min(cwnd, sk1.snd_cwnd_clamp)
         IN  [sk1 EXCEPT !.snd_cwnd =
                             IF sk1.mode = BBRPLUS_PROBE_RTT
                             THEN Min(capped, bbrplus_cwnd_min_target)
                             ELSE capped]

bbrplus_set_cwnd(sk, rs, e, acked, bw, gain) ==
    IF acked = 0
    THEN sk
    ELSE LET r       == bbrplus_set_cwnd_to_recover_or_restore(sk, rs, e, acked)
             sk1     == r.sk
             target0 == bbrplus_bdp(sk1, bw, gain)
                            + bbrplus_ack_aggregation_cwnd(sk1)
             target  == bbrplus_quantization_budget(sk1, target0, gain)
             cwnd1   == IF bbrplus_full_bw_reached(sk1)
                        THEN Min(r.cwnd + acked, target)
                        ELSE IF r.cwnd < target \/ sk1.delivered < TCP_INIT_CWND
                        THEN r.cwnd + acked
                        ELSE r.cwnd
             cwnd    == IF r.conserve THEN r.cwnd
                        ELSE Max(cwnd1, bbrplus_cwnd_min_target)
             capped  == Min(cwnd, sk1.snd_cwnd_clamp)
         IN  [sk1 EXCEPT !.snd_cwnd =
                             IF sk1.mode = BBRPLUS_PROBE_RTT
                             THEN Min(capped, bbrplus_cwnd_min_target)
                             ELSE capped]

(***************************************************************************)
(* PROBE_BW gain cycling                                                   *)
(***************************************************************************)
(* bbrplus_drain_to_target_cycling leaving the probe-up phase without      *)
(* waiting for min_rtt_us to elapse.                                       *)
drain_to_target_cycling_without_wait(sk, rs, e) ==
    LET elapsed_us == tcp_stamp_us_delta(sk.delivered_mstamp, sk.cycle_mstamp)
        inflight   == rs.prior_in_flight
        bw         == bbrplus_max_bw(sk)
    IN  IF sk.mode # BBRPLUS_PROBE_BW
        THEN sk
        ELSE IF U32Gt(elapsed_us, U32Mul(sk.cycle_len, sk.min_rtt_us))
        THEN bbrplus_set_cycle_idx(
                 [sk EXCEPT !.cycle_mstamp = sk.delivered_mstamp,
                            !.cycle_len = (CYCLE_LEN
                                - prandom_u32_max(e.rand_cycle, bbrplus_cycle_rand)) % 16],
                 BBRPLUS_BW_PROBE_UP)
        ELSE IF sk.pacing_gain = BBRPLUS_UNIT
        THEN sk
        ELSE IF sk.pacing_gain < BBRPLUS_UNIT
        THEN IF inflight <= bbrplus_inflight(sk, bw, BBRPLUS_UNIT)
             THEN bbrplus_set_cycle_idx(sk, BBRPLUS_BW_PROBE_CRUISE)
             ELSE sk
        ELSE IF \/ inflight >= bbrplus_inflight(sk, bw, sk.pacing_gain)
                \/ rs.losses # 0
                \/ rs.is_app_limited
                \/ ~tcp_send_head(e)
                \/ ~tcp_snd_wnd_test(e)
        THEN bbrplus_set_cycle_idx(sk, BBRPLUS_BW_PROBE_DOWN)
        ELSE sk

(* bbrplus_drain_to_target_cycling never starting a new cycle from the     *)
(* DOWN phase.                                                             *)
drain_to_target_cycling_holds_down(sk, rs, e) ==
    LET elapsed_us == tcp_stamp_us_delta(sk.delivered_mstamp, sk.cycle_mstamp)
        inflight   == rs.prior_in_flight
        bw         == bbrplus_max_bw(sk)
    IN  IF sk.mode # BBRPLUS_PROBE_BW
        THEN sk
        ELSE IF /\ sk.cycle_idx # BBRPLUS_BW_PROBE_DOWN
                /\ U32Gt(elapsed_us, U32Mul(sk.cycle_len, sk.min_rtt_us))
        THEN bbrplus_set_cycle_idx(
                 [sk EXCEPT !.cycle_mstamp = sk.delivered_mstamp,
                            !.cycle_len = (CYCLE_LEN
                                - prandom_u32_max(e.rand_cycle, bbrplus_cycle_rand)) % 16],
                 BBRPLUS_BW_PROBE_UP)
        ELSE IF sk.pacing_gain = BBRPLUS_UNIT
        THEN sk
        ELSE IF sk.pacing_gain < BBRPLUS_UNIT
        THEN IF inflight <= bbrplus_inflight(sk, bw, BBRPLUS_UNIT)
             THEN bbrplus_set_cycle_idx(sk, BBRPLUS_BW_PROBE_CRUISE)
             ELSE sk
        ELSE IF /\ U32Gt(elapsed_us, sk.min_rtt_us)
                /\ \/ inflight >= bbrplus_inflight(sk, bw, sk.pacing_gain)
                   \/ rs.losses # 0
                   \/ rs.is_app_limited
                   \/ ~tcp_send_head(e)
                   \/ ~tcp_snd_wnd_test(e)
        THEN bbrplus_set_cycle_idx(sk, BBRPLUS_BW_PROBE_DOWN)
        ELSE sk

bbrplus_drain_to_target_cycling(sk, rs, e) ==
    LET elapsed_us == tcp_stamp_us_delta(sk.delivered_mstamp, sk.cycle_mstamp)
        inflight   == rs.prior_in_flight
        bw         == bbrplus_max_bw(sk)
    IN  IF sk.mode # BBRPLUS_PROBE_BW
        THEN sk
        ELSE IF U32Gt(elapsed_us, U32Mul(sk.cycle_len, sk.min_rtt_us))
        THEN bbrplus_set_cycle_idx(
                 [sk EXCEPT !.cycle_mstamp = sk.delivered_mstamp,
                            !.cycle_len = (CYCLE_LEN
                                - prandom_u32_max(e.rand_cycle, bbrplus_cycle_rand)) % 16],
                 BBRPLUS_BW_PROBE_UP)
        ELSE IF sk.pacing_gain = BBRPLUS_UNIT
        THEN sk
        ELSE IF sk.pacing_gain < BBRPLUS_UNIT
        THEN IF inflight <= bbrplus_inflight(sk, bw, BBRPLUS_UNIT)
             THEN bbrplus_set_cycle_idx(sk, BBRPLUS_BW_PROBE_CRUISE)
             ELSE sk
        ELSE IF /\ U32Gt(elapsed_us, sk.min_rtt_us)
                /\ \/ inflight >= bbrplus_inflight(sk, bw, sk.pacing_gain)
                   \/ rs.losses # 0
                   \/ rs.is_app_limited
                   \/ ~tcp_send_head(e)
                   \/ ~tcp_snd_wnd_test(e)
        THEN bbrplus_set_cycle_idx(sk, BBRPLUS_BW_PROBE_DOWN)
        ELSE sk

bbrplus_is_next_cycle_phase(sk, rs) ==
    LET is_full_length ==
            U32Gt(tcp_stamp_us_delta(sk.delivered_mstamp, sk.cycle_mstamp),
                  sk.min_rtt_us)
        inflight == rs.prior_in_flight
        bw       == bbrplus_max_bw(sk)
    IN  IF sk.pacing_gain = BBRPLUS_UNIT
        THEN is_full_length
        ELSE IF sk.pacing_gain > BBRPLUS_UNIT
        THEN is_full_length /\ (rs.losses # 0
                 \/ inflight >= bbrplus_inflight(sk, bw, sk.pacing_gain))
        ELSE is_full_length \/ inflight <= bbrplus_inflight(sk, bw, BBRPLUS_UNIT)

bbrplus_advance_cycle_phase(sk) ==
    LET idx == (sk.cycle_idx + 1) % CYCLE_LEN
    IN  [sk EXCEPT !.cycle_idx = idx,
                   !.cycle_mstamp = sk.delivered_mstamp,
                   !.pacing_gain = bbrplus_pacing_gain[idx]]

bbrplus_update_cycle_phase(sk, rs, e) ==
    IF bbrplus_drain_to_target
    THEN bbrplus_drain_to_target_cycling(sk, rs, e)
    ELSE IF sk.mode = BBRPLUS_PROBE_BW /\ ~sk.lt_use_bw
            /\ bbrplus_is_next_cycle_phase(sk, rs)
    THEN bbrplus_advance_cycle_phase(sk)
    ELSE sk

(***************************************************************************)
(* Modes                                                                   *)
(***************************************************************************)
bbrplus_reset_startup_mode(sk) ==
    [sk EXCEPT !.mode = BBRPLUS_STARTUP,
               !.pacing_gain = bbrplus_high_gain,
               !.cwnd_gain = bbrplus_high_gain]

(* bbrplus_reset_probe_bw_mode leaving cwnd_gain as the mode before set    *)
(* it.                                                                     *)
reset_probe_bw_mode_keeps_cwnd_gain(sk, e) ==
    bbrplus_advance_cycle_phase(
        [sk EXCEPT !.mode = BBRPLUS_PROBE_BW,
                   !.pacing_gain = BBRPLUS_UNIT,
                   !.cycle_idx = (CYCLE_LEN - 1
                       - prandom_u32_max(e.rand_mode, bbrplus_cycle_rand)) % 8])

(* bbrplus_reset_probe_bw_mode without the advance to the next phase.      *)
reset_probe_bw_mode_without_advance(sk, e) ==
    LET sk1 == [sk EXCEPT !.mode = BBRPLUS_PROBE_BW,
                          !.pacing_gain = BBRPLUS_UNIT,
                          !.cwnd_gain = bbrplus_cwnd_gain,
                          !.cycle_idx = (CYCLE_LEN - 1
                              - prandom_u32_max(e.rand_mode, bbrplus_cycle_rand)) % 8]
    IN  [sk1 EXCEPT !.cycle_mstamp = sk1.delivered_mstamp,
                    !.pacing_gain = bbrplus_pacing_gain[sk1.cycle_idx]]

bbrplus_reset_probe_bw_mode(sk, e) ==
    bbrplus_advance_cycle_phase(
        [sk EXCEPT !.mode = BBRPLUS_PROBE_BW,
                   !.pacing_gain = BBRPLUS_UNIT,
                   !.cwnd_gain = bbrplus_cwnd_gain,
                   !.cycle_idx = (CYCLE_LEN - 1
                       - prandom_u32_max(e.rand_mode, bbrplus_cycle_rand)) % 8])

(* bbrplus_reset_mode restarting in STARTUP whatever the pipe.              *)
reset_mode_always_startup(sk, e) ==
    bbrplus_reset_startup_mode(sk)

bbrplus_reset_mode(sk, e) ==
    IF ~bbrplus_full_bw_reached(sk)
    THEN bbrplus_reset_startup_mode(sk)
    ELSE bbrplus_reset_probe_bw_mode(sk, e)

(***************************************************************************)
(* Long-term bandwidth sampling                                            *)
(***************************************************************************)
bbrplus_reset_lt_bw_sampling_interval(sk) ==
    [sk EXCEPT !.lt_last_stamp = sk.delivered_mstamp \div USEC_PER_MSEC,
               !.lt_last_delivered = sk.delivered,
               !.lt_last_lost = sk.lost,
               !.lt_rtt_cnt = 0]

bbrplus_reset_lt_bw_sampling(sk) ==
    bbrplus_reset_lt_bw_sampling_interval(
        [sk EXCEPT !.lt_bw = 0, !.lt_use_bw = FALSE, !.lt_is_sampling = FALSE])

bbrplus_lt_bw_interval_done(sk, bw) ==
    LET diff == Abs(bw - sk.lt_bw)
    IN  IF /\ sk.lt_bw # 0
           /\ \/ diff * BBRPLUS_UNIT <= bbrplus_lt_bw_ratio * sk.lt_bw
              \/ bbrplus_rate_bytes_per_sec(sk, diff, BBRPLUS_UNIT)
                     <= bbrplus_lt_bw_diff
        THEN [sk EXCEPT !.lt_bw = (bw + sk.lt_bw) \div 2,
                        !.lt_use_bw = TRUE,
                        !.pacing_gain = BBRPLUS_UNIT,
                        !.lt_rtt_cnt = 0]
        ELSE bbrplus_reset_lt_bw_sampling_interval([sk EXCEPT !.lt_bw = bw])

(* The interval's end: lines 782-801, reached on a loss with 4..16 rounds.  *)
(* t is a u32 kept in two's complement, so that t < 1 is (s32)t < 1; once   *)
(* t is in 1 .. 4294966 the product t * USEC_PER_MSEC fits a u32, and       *)
(* x / (t * 1000) is computed as (x / t) / 1000, which is the same number.  *)
bbrplus_lt_bw_sampling_end(sk) ==
    LET lost      == sk.lost - sk.lt_last_lost
        delivered == sk.delivered - sk.lt_last_delivered
        t         == sk.delivered_mstamp \div USEC_PER_MSEC - sk.lt_last_stamp
    IN  IF delivered = 0
           \/ lost * BBRPLUS_UNIT < bbrplus_lt_loss_thresh * delivered
        THEN sk
        ELSE IF t < 1
        THEN sk
        ELSE IF t >= 4294967
        THEN bbrplus_reset_lt_bw_sampling(sk)
        ELSE bbrplus_lt_bw_interval_done(
                 sk, ((delivered * BW_UNIT) \div t) \div USEC_PER_MSEC)

(* bbrplus_lt_bw_sampling sampling on through app-limited ACKs.            *)
lt_bw_sampling_through_app_limited(sk, rs, e) ==
    IF sk.lt_use_bw
    THEN IF sk.mode = BBRPLUS_PROBE_BW /\ sk.round_start
         THEN LET sk1 == [sk EXCEPT !.lt_rtt_cnt = (sk.lt_rtt_cnt + 1) % 128]
              IN  IF sk1.lt_rtt_cnt >= bbrplus_lt_bw_max_rtts
                  THEN bbrplus_reset_probe_bw_mode(
                           bbrplus_reset_lt_bw_sampling(sk1), e)
                  ELSE sk1
         ELSE sk
    ELSE IF ~sk.lt_is_sampling /\ rs.losses = 0
    THEN sk
    ELSE LET sk1 == IF ~sk.lt_is_sampling
                    THEN [bbrplus_reset_lt_bw_sampling_interval(sk)
                              EXCEPT !.lt_is_sampling = TRUE]
                    ELSE sk
             sk2 == IF sk1.round_start
                    THEN [sk1 EXCEPT !.lt_rtt_cnt = (sk1.lt_rtt_cnt + 1) % 128]
                    ELSE sk1
         IN  IF sk2.lt_rtt_cnt < bbrplus_lt_intvl_min_rtts
             THEN sk2
             ELSE IF sk2.lt_rtt_cnt > 4 * bbrplus_lt_intvl_min_rtts
             THEN bbrplus_reset_lt_bw_sampling(sk2)
             ELSE IF rs.losses = 0
             THEN sk2
             ELSE bbrplus_lt_bw_sampling_end(sk2)

(* bbrplus_lt_bw_sampling starting an interval without waiting for the     *)
(* first loss.                                                             *)
lt_bw_sampling_without_first_loss(sk, rs, e) ==
    IF sk.lt_use_bw
    THEN IF sk.mode = BBRPLUS_PROBE_BW /\ sk.round_start
         THEN LET sk1 == [sk EXCEPT !.lt_rtt_cnt = (sk.lt_rtt_cnt + 1) % 128]
              IN  IF sk1.lt_rtt_cnt >= bbrplus_lt_bw_max_rtts
                  THEN bbrplus_reset_probe_bw_mode(
                           bbrplus_reset_lt_bw_sampling(sk1), e)
                  ELSE sk1
         ELSE sk
    ELSE LET sk1 == IF ~sk.lt_is_sampling
                    THEN [bbrplus_reset_lt_bw_sampling_interval(sk)
                              EXCEPT !.lt_is_sampling = TRUE]
                    ELSE sk
         IN  IF rs.is_app_limited
             THEN bbrplus_reset_lt_bw_sampling(sk1)
             ELSE LET sk2 == IF sk1.round_start
                             THEN [sk1 EXCEPT !.lt_rtt_cnt = (sk1.lt_rtt_cnt + 1) % 128]
                             ELSE sk1
                  IN  IF sk2.lt_rtt_cnt < bbrplus_lt_intvl_min_rtts
                      THEN sk2
                      ELSE IF sk2.lt_rtt_cnt > 4 * bbrplus_lt_intvl_min_rtts
                      THEN bbrplus_reset_lt_bw_sampling(sk2)
                      ELSE IF rs.losses = 0
                      THEN sk2
                      ELSE bbrplus_lt_bw_sampling_end(sk2)

(* bbrplus_lt_bw_sampling counting the rounds of a latched lt_bw in every  *)
(* mode, not only in PROBE_BW.                                             *)
lt_bw_sampling_counts_every_mode(sk, rs, e) ==
    IF sk.lt_use_bw
    THEN IF sk.round_start
         THEN LET sk1 == [sk EXCEPT !.lt_rtt_cnt = (sk.lt_rtt_cnt + 1) % 128]
              IN  IF sk1.lt_rtt_cnt >= bbrplus_lt_bw_max_rtts
                  THEN bbrplus_reset_probe_bw_mode(
                           bbrplus_reset_lt_bw_sampling(sk1), e)
                  ELSE sk1
         ELSE sk
    ELSE IF ~sk.lt_is_sampling /\ rs.losses = 0
    THEN sk
    ELSE LET sk1 == IF ~sk.lt_is_sampling
                    THEN [bbrplus_reset_lt_bw_sampling_interval(sk)
                              EXCEPT !.lt_is_sampling = TRUE]
                    ELSE sk
         IN  IF rs.is_app_limited
             THEN bbrplus_reset_lt_bw_sampling(sk1)
             ELSE LET sk2 == IF sk1.round_start
                             THEN [sk1 EXCEPT !.lt_rtt_cnt = (sk1.lt_rtt_cnt + 1) % 128]
                             ELSE sk1
                  IN  IF sk2.lt_rtt_cnt < bbrplus_lt_intvl_min_rtts
                      THEN sk2
                      ELSE IF sk2.lt_rtt_cnt > 4 * bbrplus_lt_intvl_min_rtts
                      THEN bbrplus_reset_lt_bw_sampling(sk2)
                      ELSE IF rs.losses = 0
                      THEN sk2
                      ELSE bbrplus_lt_bw_sampling_end(sk2)

bbrplus_lt_bw_sampling(sk, rs, e) ==
    IF sk.lt_use_bw
    THEN IF sk.mode = BBRPLUS_PROBE_BW /\ sk.round_start
         THEN LET sk1 == [sk EXCEPT !.lt_rtt_cnt = (sk.lt_rtt_cnt + 1) % 128]
              IN  IF sk1.lt_rtt_cnt >= bbrplus_lt_bw_max_rtts
                  THEN bbrplus_reset_probe_bw_mode(
                           bbrplus_reset_lt_bw_sampling(sk1), e)
                  ELSE sk1
         ELSE sk
    ELSE IF ~sk.lt_is_sampling /\ rs.losses = 0
    THEN sk
    ELSE LET sk1 == IF ~sk.lt_is_sampling
                    THEN [bbrplus_reset_lt_bw_sampling_interval(sk)
                              EXCEPT !.lt_is_sampling = TRUE]
                    ELSE sk
         IN  IF rs.is_app_limited
             THEN bbrplus_reset_lt_bw_sampling(sk1)
             ELSE LET sk2 == IF sk1.round_start
                             THEN [sk1 EXCEPT !.lt_rtt_cnt = (sk1.lt_rtt_cnt + 1) % 128]
                             ELSE sk1
                  IN  IF sk2.lt_rtt_cnt < bbrplus_lt_intvl_min_rtts
                      THEN sk2
                      ELSE IF sk2.lt_rtt_cnt > 4 * bbrplus_lt_intvl_min_rtts
                      THEN bbrplus_reset_lt_bw_sampling(sk2)
                      ELSE IF rs.losses = 0
                      THEN sk2
                      ELSE bbrplus_lt_bw_sampling_end(sk2)

(* bbrplus_update_bw without the reset of round_start at its head.         *)
update_bw_stale_round_start(sk, rs, e) ==
    LET sk0 == sk
    IN  IF rs.delivered < 0 \/ rs.interval_us <= 0
        THEN sk0
        ELSE LET sk1 == IF ~before(rs.prior_delivered, sk0.next_rtt_delivered)
                        THEN [sk0 EXCEPT !.next_rtt_delivered = sk0.delivered,
                                         !.rtt_cnt = sk0.rtt_cnt + 1,
                                         !.round_start = TRUE,
                                         !.packet_conservation = FALSE]
                        ELSE sk0
                 sk2 == bbrplus_lt_bw_sampling(sk1, rs, e)
                 bw  == (rs.delivered * BW_UNIT) \div rs.interval_us
             IN  IF ~rs.is_app_limited \/ bw >= bbrplus_max_bw(sk2)
                 THEN [sk2 EXCEPT !.bw = minmax_running_max(
                                             sk2.bw, bbrplus_bw_rtts, sk2.rtt_cnt, bw)]
                 ELSE sk2

(* bbrplus_update_bw feeding every valid sample, app-limited or not.       *)
update_bw_feeds_app_limited(sk, rs, e) ==
    LET sk0 == [sk EXCEPT !.round_start = FALSE]
    IN  IF rs.delivered < 0 \/ rs.interval_us <= 0
        THEN sk0
        ELSE LET sk1 == IF ~before(rs.prior_delivered, sk0.next_rtt_delivered)
                        THEN [sk0 EXCEPT !.next_rtt_delivered = sk0.delivered,
                                         !.rtt_cnt = sk0.rtt_cnt + 1,
                                         !.round_start = TRUE,
                                         !.packet_conservation = FALSE]
                        ELSE sk0
                 sk2 == bbrplus_lt_bw_sampling(sk1, rs, e)
                 bw  == (rs.delivered * BW_UNIT) \div rs.interval_us
             IN  IF TRUE
                 THEN [sk2 EXCEPT !.bw = minmax_running_max(
                                             sk2.bw, bbrplus_bw_rtts, sk2.rtt_cnt, bw)]
                 ELSE sk2

(* bbrplus_update_bw keying the bandwidth filter by the clock, as the       *)
(* min-RTT filter is, instead of by rtt_cnt.                               *)
update_bw_keyed_by_clock(sk, rs, e) ==
    LET sk0 == [sk EXCEPT !.round_start = FALSE]
    IN  IF rs.delivered < 0 \/ rs.interval_us <= 0
        THEN sk0
        ELSE LET sk1 == IF ~before(rs.prior_delivered, sk0.next_rtt_delivered)
                        THEN [sk0 EXCEPT !.next_rtt_delivered = sk0.delivered,
                                         !.rtt_cnt = sk0.rtt_cnt + 1,
                                         !.round_start = TRUE,
                                         !.packet_conservation = FALSE]
                        ELSE sk0
                 sk2 == bbrplus_lt_bw_sampling(sk1, rs, e)
                 bw  == (rs.delivered * BW_UNIT) \div rs.interval_us
             IN  IF ~rs.is_app_limited \/ bw >= bbrplus_max_bw(sk2)
                 THEN [sk2 EXCEPT !.bw = minmax_running_max(
                                             sk2.bw, bbrplus_bw_rtts,
                                             tcp_jiffies32(sk2), bw)]
                 ELSE sk2

(***************************************************************************)
(* The model of the path: bandwidth, full pipe, drain, ACK aggregation,    *)
(* min RTT                                                                 *)
(***************************************************************************)
(* bbrplus_update_bw looking for the next round before it checks that the  *)
(* sample is valid.                                                        *)
update_bw_rounds_on_invalid(sk, rs, e) ==
    LET sk0 == [sk EXCEPT !.round_start = FALSE]
        sk1 == IF ~before(rs.prior_delivered, sk0.next_rtt_delivered)
               THEN [sk0 EXCEPT !.next_rtt_delivered = sk0.delivered,
                                !.rtt_cnt = sk0.rtt_cnt + 1,
                                !.round_start = TRUE,
                                !.packet_conservation = FALSE]
               ELSE sk0
    IN  IF rs.delivered < 0 \/ rs.interval_us <= 0
        THEN sk1
        ELSE LET sk2 == bbrplus_lt_bw_sampling(sk1, rs, e)
                 bw  == (rs.delivered * BW_UNIT) \div rs.interval_us
             IN  IF ~rs.is_app_limited \/ bw >= bbrplus_max_bw(sk2)
                 THEN [sk2 EXCEPT !.bw = minmax_running_max(
                                             sk2.bw, bbrplus_bw_rtts, sk2.rtt_cnt, bw)]
                 ELSE sk2

bbrplus_update_bw(sk, rs, e) ==
    LET sk0 == [sk EXCEPT !.round_start = FALSE]
    IN  IF rs.delivered < 0 \/ rs.interval_us <= 0
        THEN sk0
        ELSE LET sk1 == IF ~before(rs.prior_delivered, sk0.next_rtt_delivered)
                        THEN [sk0 EXCEPT !.next_rtt_delivered = sk0.delivered,
                                         !.rtt_cnt = sk0.rtt_cnt + 1,
                                         !.round_start = TRUE,
                                         !.packet_conservation = FALSE]
                        ELSE sk0
                 sk2 == bbrplus_lt_bw_sampling(sk1, rs, e)
                 bw  == (rs.delivered * BW_UNIT) \div rs.interval_us
             IN  IF ~rs.is_app_limited \/ bw >= bbrplus_max_bw(sk2)
                 THEN [sk2 EXCEPT !.bw = minmax_running_max(
                                             sk2.bw, bbrplus_bw_rtts, sk2.rtt_cnt, bw)]
                 ELSE sk2

(* bbrplus_check_full_bw_reached counting app-limited rounds too.          *)
check_full_bw_counts_app_limited(sk, rs) ==
    IF bbrplus_full_bw_reached(sk) \/ ~sk.round_start
    THEN sk
    ELSE LET bw_thresh == MulShr(sk.full_bw, bbrplus_full_bw_thresh, BBRPLUS_SCALE)
         IN  IF bbrplus_max_bw(sk) >= bw_thresh
             THEN [sk EXCEPT !.full_bw = bbrplus_max_bw(sk), !.full_bw_cnt = 0]
             ELSE [sk EXCEPT !.full_bw_cnt = (sk.full_bw_cnt + 1) % 8]

(* bbrplus_check_full_bw_reached without the early return once the pipe    *)
(* was found full.                                                         *)
check_full_bw_ignores_reached(sk, rs) ==
    IF ~sk.round_start \/ rs.is_app_limited
    THEN sk
    ELSE LET bw_thresh == MulShr(sk.full_bw, bbrplus_full_bw_thresh, BBRPLUS_SCALE)
         IN  IF bbrplus_max_bw(sk) >= bw_thresh
             THEN [sk EXCEPT !.full_bw = bbrplus_max_bw(sk), !.full_bw_cnt = 0]
             ELSE [sk EXCEPT !.full_bw_cnt = (sk.full_bw_cnt + 1) % 8]

bbrplus_check_full_bw_reached(sk, rs) ==
    IF bbrplus_full_bw_reached(sk) \/ ~sk.round_start \/ rs.is_app_limited
    THEN sk
    ELSE LET bw_thresh == MulShr(sk.full_bw, bbrplus_full_bw_thresh, BBRPLUS_SCALE)
         IN  IF bbrplus_max_bw(sk) >= bw_thresh
             THEN [sk EXCEPT !.full_bw = bbrplus_max_bw(sk), !.full_bw_cnt = 0]
             ELSE [sk EXCEPT !.full_bw_cnt = (sk.full_bw_cnt + 1) % 8]

(* bbrplus_check_drain entering DRAIN from any mode once the pipe is full.  *)
check_drain_from_any_mode(sk, rs, e) ==
    LET sk1 == IF bbrplus_full_bw_reached(sk)
               THEN [sk EXCEPT !.mode = BBRPLUS_DRAIN,
                               !.pacing_gain = bbrplus_drain_gain,
                               !.cwnd_gain = bbrplus_high_gain]
               ELSE sk
    IN  IF /\ sk1.mode = BBRPLUS_DRAIN
           /\ tcp_packets_in_flight(e)
                  <= bbrplus_inflight(sk1, bbrplus_max_bw(sk1), BBRPLUS_UNIT)
        THEN bbrplus_reset_probe_bw_mode(sk1, e)
        ELSE sk1

check_drain_at_bdp(sk, rs, e) ==
    LET sk1 == IF sk.mode = BBRPLUS_STARTUP /\ bbrplus_full_bw_reached(sk)
               THEN [sk EXCEPT !.mode = BBRPLUS_DRAIN,
                               !.pacing_gain = bbrplus_drain_gain,
                               !.cwnd_gain = bbrplus_high_gain]
               ELSE sk
    IN  IF /\ sk1.mode = BBRPLUS_DRAIN
           /\ tcp_packets_in_flight(e)
                  <= bbrplus_bdp(sk1, bbrplus_max_bw(sk1), BBRPLUS_UNIT)
        THEN bbrplus_reset_probe_bw_mode(sk1, e)
        ELSE sk1

bbrplus_check_drain(sk, rs, e) ==
    LET sk1 == IF sk.mode = BBRPLUS_STARTUP /\ bbrplus_full_bw_reached(sk)
               THEN [sk EXCEPT !.mode = BBRPLUS_DRAIN,
                               !.pacing_gain = bbrplus_drain_gain,
                               !.cwnd_gain = bbrplus_high_gain]
               ELSE sk
    IN  IF /\ sk1.mode = BBRPLUS_DRAIN
           /\ tcp_packets_in_flight(e)
                  <= bbrplus_inflight(sk1, bbrplus_max_bw(sk1), BBRPLUS_UNIT)
        THEN bbrplus_reset_probe_bw_mode(sk1, e)
        ELSE sk1

bbrplus_update_ack_aggregation(sk, rs) ==
    IF bbrplus_extra_acked_gain = 0 \/ rs.acked_sacked <= 0
       \/ rs.delivered < 0 \/ rs.interval_us <= 0
    THEN sk
    ELSE LET rtts == Min(31, sk.extra_acked_win_rtts + 1)
             sk1  == IF ~sk.round_start
                     THEN sk
                     ELSE IF rtts >= bbrplus_extra_acked_win_rtts
                     THEN LET idx == 1 - sk.extra_acked_win_idx
                          IN  [sk EXCEPT !.extra_acked_win_rtts = 0,
                                         !.extra_acked_win_idx = idx,
                                         !.extra_acked[idx + 1] = 0]
                     ELSE [sk EXCEPT !.extra_acked_win_rtts = rtts]
             epoch_us  == tcp_stamp_us_delta(sk1.delivered_mstamp,
                                             sk1.ack_epoch_mstamp)
             expected0 == MulShr(bbrplus_bw(sk1), epoch_us, BW_SCALE)
             reset     == \/ sk1.ack_epoch_acked <= expected0
                          \/ sk1.ack_epoch_acked + rs.acked_sacked
                                 >= bbrplus_ack_epoch_acked_reset_thresh
             sk2  == IF reset
                     THEN [sk1 EXCEPT !.ack_epoch_acked = 0,
                                      !.ack_epoch_mstamp = sk1.delivered_mstamp]
                     ELSE sk1
             expected_acked == IF reset THEN 0 ELSE expected0
             sk3  == [sk2 EXCEPT !.ack_epoch_acked =
                                     Min(1048575, sk2.ack_epoch_acked + rs.acked_sacked)]
             extra_acked == Min(sk3.ack_epoch_acked - expected_acked, sk3.snd_cwnd)
             slot == sk3.extra_acked_win_idx + 1
         IN  IF extra_acked > sk3.extra_acked[slot]
             THEN [sk3 EXCEPT !.extra_acked[slot] = extra_acked % 65536]
             ELSE sk3

(* bbrplus_update_min_rtt taking every RTT sample as the new minimum.       *)
update_min_rtt_takes_any_sample(sk, rs, e) ==
    LET now == tcp_jiffies32(sk)
        filter_expired ==
            after(now, sk.min_rtt_stamp + bbrplus_min_rtt_win_sec * HZ)
        sk1 == IF rs.rtt_us >= 0
               THEN [sk EXCEPT !.min_rtt_us = rs.rtt_us, !.min_rtt_stamp = now]
               ELSE sk
        sk2 == IF /\ bbrplus_probe_rtt_mode_ms > 0
                  /\ filter_expired
                  /\ ~sk1.idle_restart
                  /\ sk1.mode # BBRPLUS_PROBE_RTT
               THEN [bbrplus_save_cwnd(
                         [sk1 EXCEPT !.mode = BBRPLUS_PROBE_RTT,
                                     !.pacing_gain = BBRPLUS_UNIT,
                                     !.cwnd_gain = BBRPLUS_UNIT])
                         EXCEPT !.probe_rtt_done_stamp = 0]
               ELSE sk1
        sk3 == IF sk2.mode # BBRPLUS_PROBE_RTT
               THEN sk2
               ELSE LET total == sk2.delivered + tcp_packets_in_flight(e)
                        sk2a  == [sk2 EXCEPT !.app_limited =
                                                 IF total # 0 THEN total ELSE 1]
                    IN  IF /\ sk2a.probe_rtt_done_stamp = 0
                           /\ tcp_packets_in_flight(e) <= bbrplus_cwnd_min_target
                        THEN [sk2a EXCEPT
                                 !.probe_rtt_done_stamp =
                                     now + msecs_to_jiffies(bbrplus_probe_rtt_mode_ms),
                                 !.probe_rtt_round_done = FALSE,
                                 !.next_rtt_delivered = sk2a.delivered]
                        ELSE IF sk2a.probe_rtt_done_stamp # 0
                        THEN LET sk2b == IF sk2a.round_start
                                         THEN [sk2a EXCEPT !.probe_rtt_round_done = TRUE]
                                         ELSE sk2a
                             IN  IF /\ sk2b.probe_rtt_round_done
                                    /\ after(now, sk2b.probe_rtt_done_stamp)
                                 THEN bbrplus_reset_mode(
                                          [sk2b EXCEPT !.min_rtt_stamp = now,
                                                       !.restore_cwnd = TRUE], e)
                                 ELSE sk2b
                        ELSE sk2a
    IN  [sk3 EXCEPT !.idle_restart = FALSE]

(* bbrplus_update_min_rtt entering PROBE_RTT during an idle restart too.   *)
update_min_rtt_during_idle_restart(sk, rs, e) ==
    LET now == tcp_jiffies32(sk)
        filter_expired ==
            after(now, sk.min_rtt_stamp + bbrplus_min_rtt_win_sec * HZ)
        sk1 == IF /\ rs.rtt_us >= 0
                  /\ \/ ~U32Gt(rs.rtt_us, sk.min_rtt_us)
                     \/ filter_expired
               THEN [sk EXCEPT !.min_rtt_us = rs.rtt_us, !.min_rtt_stamp = now]
               ELSE sk
        sk2 == IF /\ bbrplus_probe_rtt_mode_ms > 0
                  /\ filter_expired
                  /\ sk1.mode # BBRPLUS_PROBE_RTT
               THEN [bbrplus_save_cwnd(
                         [sk1 EXCEPT !.mode = BBRPLUS_PROBE_RTT,
                                     !.pacing_gain = BBRPLUS_UNIT,
                                     !.cwnd_gain = BBRPLUS_UNIT])
                         EXCEPT !.probe_rtt_done_stamp = 0]
               ELSE sk1
        sk3 == IF sk2.mode # BBRPLUS_PROBE_RTT
               THEN sk2
               ELSE LET total == sk2.delivered + tcp_packets_in_flight(e)
                        sk2a  == [sk2 EXCEPT !.app_limited =
                                                 IF total # 0 THEN total ELSE 1]
                    IN  IF /\ sk2a.probe_rtt_done_stamp = 0
                           /\ tcp_packets_in_flight(e) <= bbrplus_cwnd_min_target
                        THEN [sk2a EXCEPT
                                 !.probe_rtt_done_stamp =
                                     now + msecs_to_jiffies(bbrplus_probe_rtt_mode_ms),
                                 !.probe_rtt_round_done = FALSE,
                                 !.next_rtt_delivered = sk2a.delivered]
                        ELSE IF sk2a.probe_rtt_done_stamp # 0
                        THEN LET sk2b == IF sk2a.round_start
                                         THEN [sk2a EXCEPT !.probe_rtt_round_done = TRUE]
                                         ELSE sk2a
                             IN  IF /\ sk2b.probe_rtt_round_done
                                    /\ after(now, sk2b.probe_rtt_done_stamp)
                                 THEN bbrplus_reset_mode(
                                          [sk2b EXCEPT !.min_rtt_stamp = now,
                                                       !.restore_cwnd = TRUE], e)
                                 ELSE sk2b
                        ELSE sk2a
    IN  [sk3 EXCEPT !.idle_restart = FALSE]

(* bbrplus_update_min_rtt leaving PROBE_RTT at the deadline without        *)
(* waiting for a round.                                                    *)
update_min_rtt_exit_without_round(sk, rs, e) ==
    LET now == tcp_jiffies32(sk)
        filter_expired ==
            after(now, sk.min_rtt_stamp + bbrplus_min_rtt_win_sec * HZ)
        sk1 == IF /\ rs.rtt_us >= 0
                  /\ \/ ~U32Gt(rs.rtt_us, sk.min_rtt_us)
                     \/ filter_expired
               THEN [sk EXCEPT !.min_rtt_us = rs.rtt_us, !.min_rtt_stamp = now]
               ELSE sk
        sk2 == IF /\ bbrplus_probe_rtt_mode_ms > 0
                  /\ filter_expired
                  /\ ~sk1.idle_restart
                  /\ sk1.mode # BBRPLUS_PROBE_RTT
               THEN [bbrplus_save_cwnd(
                         [sk1 EXCEPT !.mode = BBRPLUS_PROBE_RTT,
                                     !.pacing_gain = BBRPLUS_UNIT,
                                     !.cwnd_gain = BBRPLUS_UNIT])
                         EXCEPT !.probe_rtt_done_stamp = 0]
               ELSE sk1
        sk3 == IF sk2.mode # BBRPLUS_PROBE_RTT
               THEN sk2
               ELSE LET total == sk2.delivered + tcp_packets_in_flight(e)
                        sk2a  == [sk2 EXCEPT !.app_limited =
                                                 IF total # 0 THEN total ELSE 1]
                    IN  IF /\ sk2a.probe_rtt_done_stamp = 0
                           /\ tcp_packets_in_flight(e) <= bbrplus_cwnd_min_target
                        THEN [sk2a EXCEPT
                                 !.probe_rtt_done_stamp =
                                     now + msecs_to_jiffies(bbrplus_probe_rtt_mode_ms),
                                 !.probe_rtt_round_done = FALSE,
                                 !.next_rtt_delivered = sk2a.delivered]
                        ELSE IF sk2a.probe_rtt_done_stamp # 0
                        THEN LET sk2b == IF sk2a.round_start
                                         THEN [sk2a EXCEPT !.probe_rtt_round_done = TRUE]
                                         ELSE sk2a
                             IN  IF after(now, sk2b.probe_rtt_done_stamp)
                                 THEN bbrplus_reset_mode(
                                          [sk2b EXCEPT !.min_rtt_stamp = now,
                                                       !.restore_cwnd = TRUE], e)
                                 ELSE sk2b
                        ELSE sk2a
    IN  [sk3 EXCEPT !.idle_restart = FALSE]

(* bbrplus_update_min_rtt arming the PROBE_RTT timer anew on every ACK     *)
(* that finds in-flight data at the floor.                                 *)
update_min_rtt_rearms_timer(sk, rs, e) ==
    LET now == tcp_jiffies32(sk)
        filter_expired ==
            after(now, sk.min_rtt_stamp + bbrplus_min_rtt_win_sec * HZ)
        sk1 == IF /\ rs.rtt_us >= 0
                  /\ \/ ~U32Gt(rs.rtt_us, sk.min_rtt_us)
                     \/ filter_expired
               THEN [sk EXCEPT !.min_rtt_us = rs.rtt_us, !.min_rtt_stamp = now]
               ELSE sk
        sk2 == IF /\ bbrplus_probe_rtt_mode_ms > 0
                  /\ filter_expired
                  /\ ~sk1.idle_restart
                  /\ sk1.mode # BBRPLUS_PROBE_RTT
               THEN [bbrplus_save_cwnd(
                         [sk1 EXCEPT !.mode = BBRPLUS_PROBE_RTT,
                                     !.pacing_gain = BBRPLUS_UNIT,
                                     !.cwnd_gain = BBRPLUS_UNIT])
                         EXCEPT !.probe_rtt_done_stamp = 0]
               ELSE sk1
        sk3 == IF sk2.mode # BBRPLUS_PROBE_RTT
               THEN sk2
               ELSE LET total == sk2.delivered + tcp_packets_in_flight(e)
                        sk2a  == [sk2 EXCEPT !.app_limited =
                                                 IF total # 0 THEN total ELSE 1]
                    IN  IF tcp_packets_in_flight(e) <= bbrplus_cwnd_min_target
                        THEN [sk2a EXCEPT
                                 !.probe_rtt_done_stamp =
                                     now + msecs_to_jiffies(bbrplus_probe_rtt_mode_ms),
                                 !.probe_rtt_round_done = FALSE,
                                 !.next_rtt_delivered = sk2a.delivered]
                        ELSE IF sk2a.probe_rtt_done_stamp # 0
                        THEN LET sk2b == IF sk2a.round_start
                                         THEN [sk2a EXCEPT !.probe_rtt_round_done = TRUE]
                                         ELSE sk2a
                             IN  IF /\ sk2b.probe_rtt_round_done
                                    /\ after(now, sk2b.probe_rtt_done_stamp)
                                 THEN bbrplus_reset_mode(
                                          [sk2b EXCEPT !.min_rtt_stamp = now,
                                                       !.restore_cwnd = TRUE], e)
                                 ELSE sk2b
                        ELSE sk2a
    IN  [sk3 EXCEPT !.idle_restart = FALSE]

(* bbrplus_update_min_rtt returning without clearing idle_restart.         *)
update_min_rtt_keeps_idle_restart(sk, rs, e) ==
    LET now == tcp_jiffies32(sk)
        filter_expired ==
            after(now, sk.min_rtt_stamp + bbrplus_min_rtt_win_sec * HZ)
        sk1 == IF /\ rs.rtt_us >= 0
                  /\ \/ ~U32Gt(rs.rtt_us, sk.min_rtt_us)
                     \/ filter_expired
               THEN [sk EXCEPT !.min_rtt_us = rs.rtt_us, !.min_rtt_stamp = now]
               ELSE sk
        sk2 == IF /\ bbrplus_probe_rtt_mode_ms > 0
                  /\ filter_expired
                  /\ ~sk1.idle_restart
                  /\ sk1.mode # BBRPLUS_PROBE_RTT
               THEN [bbrplus_save_cwnd(
                         [sk1 EXCEPT !.mode = BBRPLUS_PROBE_RTT,
                                     !.pacing_gain = BBRPLUS_UNIT,
                                     !.cwnd_gain = BBRPLUS_UNIT])
                         EXCEPT !.probe_rtt_done_stamp = 0]
               ELSE sk1
        sk3 == IF sk2.mode # BBRPLUS_PROBE_RTT
               THEN sk2
               ELSE LET total == sk2.delivered + tcp_packets_in_flight(e)
                        sk2a  == [sk2 EXCEPT !.app_limited =
                                                 IF total # 0 THEN total ELSE 1]
                    IN  IF /\ sk2a.probe_rtt_done_stamp = 0
                           /\ tcp_packets_in_flight(e) <= bbrplus_cwnd_min_target
                        THEN [sk2a EXCEPT
                                 !.probe_rtt_done_stamp =
                                     now + msecs_to_jiffies(bbrplus_probe_rtt_mode_ms),
                                 !.probe_rtt_round_done = FALSE,
                                 !.next_rtt_delivered = sk2a.delivered]
                        ELSE IF sk2a.probe_rtt_done_stamp # 0
                        THEN LET sk2b == IF sk2a.round_start
                                         THEN [sk2a EXCEPT !.probe_rtt_round_done = TRUE]
                                         ELSE sk2a
                             IN  IF /\ sk2b.probe_rtt_round_done
                                    /\ after(now, sk2b.probe_rtt_done_stamp)
                                 THEN bbrplus_reset_mode(
                                          [sk2b EXCEPT !.min_rtt_stamp = now,
                                                       !.restore_cwnd = TRUE], e)
                                 ELSE sk2b
                        ELSE sk2a
    IN  sk3

bbrplus_update_min_rtt(sk, rs, e) ==
    LET now == tcp_jiffies32(sk)
        filter_expired ==
            after(now, sk.min_rtt_stamp + bbrplus_min_rtt_win_sec * HZ)
        sk1 == IF /\ rs.rtt_us >= 0
                  /\ \/ ~U32Gt(rs.rtt_us, sk.min_rtt_us)
                     \/ filter_expired
               THEN [sk EXCEPT !.min_rtt_us = rs.rtt_us, !.min_rtt_stamp = now]
               ELSE sk
        sk2 == IF /\ bbrplus_probe_rtt_mode_ms > 0
                  /\ filter_expired
                  /\ ~sk1.idle_restart
                  /\ sk1.mode # BBRPLUS_PROBE_RTT
               THEN [bbrplus_save_cwnd(
                         [sk1 EXCEPT !.mode = BBRPLUS_PROBE_RTT,
                                     !.pacing_gain = BBRPLUS_UNIT,
                                     !.cwnd_gain = BBRPLUS_UNIT])
                         EXCEPT !.probe_rtt_done_stamp = 0]
               ELSE sk1
        sk3 == IF sk2.mode # BBRPLUS_PROBE_RTT
               THEN sk2
               ELSE LET total == sk2.delivered + tcp_packets_in_flight(e)
                        sk2a  == [sk2 EXCEPT !.app_limited =
                                                 IF total # 0 THEN total ELSE 1]
                    IN  IF /\ sk2a.probe_rtt_done_stamp = 0
                           /\ tcp_packets_in_flight(e) <= bbrplus_cwnd_min_target
                        THEN [sk2a EXCEPT
                                 !.probe_rtt_done_stamp =
                                     now + msecs_to_jiffies(bbrplus_probe_rtt_mode_ms),
                                 !.probe_rtt_round_done = FALSE,
                                 !.next_rtt_delivered = sk2a.delivered]
                        ELSE IF sk2a.probe_rtt_done_stamp # 0
                        THEN LET sk2b == IF sk2a.round_start
                                         THEN [sk2a EXCEPT !.probe_rtt_round_done = TRUE]
                                         ELSE sk2a
                             IN  IF /\ sk2b.probe_rtt_round_done
                                    /\ after(now, sk2b.probe_rtt_done_stamp)
                                 THEN bbrplus_reset_mode(
                                          [sk2b EXCEPT !.min_rtt_stamp = now,
                                                       !.restore_cwnd = TRUE], e)
                                 ELSE sk2b
                        ELSE sk2a
    IN  [sk3 EXCEPT !.idle_restart = FALSE]

bbrplus_update_model(sk, rs, e) ==
    LET sk1 == bbrplus_update_bw(sk, rs, e)
        sk2 == bbrplus_update_ack_aggregation(sk1, rs)
        sk3 == bbrplus_update_cycle_phase(sk2, rs, e)
        sk4 == bbrplus_check_full_bw_reached(sk3, rs)
        sk5 == bbrplus_check_drain(sk4, rs, e)
    IN  bbrplus_update_min_rtt(sk5, rs, e)

bbrplus_main(sk, rs, e) ==
    LET sk1 == bbrplus_update_model(sk, rs, e)
        bw  == bbrplus_bw(sk1)
        sk2 == bbrplus_set_pacing_rate(sk1, bw, sk1.pacing_gain)
        sk3 == bbrplus_set_tso_segs_goal(sk2)
    IN  bbrplus_set_cwnd(sk3, rs, e, rs.acked_sacked, bw, sk3.cwnd_gain)

(***************************************************************************)
(* Hooks of tcp_bbrplus_cong_ops                                           *)
(***************************************************************************)
bbrplus_init(sk) ==
    LET sk1 == [sk EXCEPT !.prior_cwnd = 0,
                          !.tso_segs_goal = 0,
                          !.rtt_cnt = 0,
                          !.next_rtt_delivered = 0,
                          !.prev_ca_state = TCP_CA_Open,
                          !.packet_conservation = FALSE,
                          !.probe_rtt_done_stamp = 0,
                          !.probe_rtt_round_done = FALSE,
                          !.min_rtt_us = sk.tcp_min_rtt,
                          !.min_rtt_stamp = tcp_jiffies32(sk),
                          !.bw = minmax_reset(0, 0),
                          !.has_seen_rtt = FALSE]
        sk2 == bbrplus_init_pacing_rate_from_rtt(sk1)
        sk3 == [sk2 EXCEPT !.restore_cwnd = FALSE,
                           !.round_start = FALSE,
                           !.idle_restart = FALSE,
                           !.full_bw = 0,
                           !.full_bw_cnt = 0,
                           !.cycle_mstamp = 0,
                           !.cycle_idx = 0,
                           !.cycle_len = 0]
        sk4 == bbrplus_reset_startup_mode(bbrplus_reset_lt_bw_sampling(sk3))
    IN  [sk4 EXCEPT !.ack_epoch_mstamp = sk4.tcp_mstamp,
                    !.ack_epoch_acked = 0,
                    !.extra_acked_win_rtts = 0,
                    !.extra_acked_win_idx = 0,
                    !.extra_acked = << 0, 0 >>]

bbrplus_sndbuf_expand(sk) == 3

bbrplus_undo_cwnd(sk) == sk.snd_cwnd

bbrplus_ssthresh(sk) == bbrplus_save_cwnd(sk)

(* The value bbrplus_ssthresh returns. *)
bbrplus_ssthresh_ret(sk) == TCP_INFINITE_SSTHRESH

set_state_clears_full_bw_cnt(sk, new_state, e) ==
    IF new_state = TCP_CA_Loss
    THEN LET rs == [delivered |-> 0, interval_us |-> 0, rtt_us |-> 0, losses |-> 1,
                    acked_sacked |-> 0, prior_in_flight |-> 0,
                    prior_delivered |-> 0, is_app_limited |-> FALSE]
         IN  bbrplus_lt_bw_sampling(
                 [sk EXCEPT !.prev_ca_state = TCP_CA_Loss,
                            !.full_bw = 0,
                            !.full_bw_cnt = 0,
                            !.round_start = TRUE], rs, e)
    ELSE sk

bbrplus_set_state(sk, new_state, e) ==
    IF new_state = TCP_CA_Loss
    THEN LET rs == [delivered |-> 0, interval_us |-> 0, rtt_us |-> 0, losses |-> 1,
                    acked_sacked |-> 0, prior_in_flight |-> 0,
                    prior_delivered |-> 0, is_app_limited |-> FALSE]
         IN  bbrplus_lt_bw_sampling(
                 [sk EXCEPT !.prev_ca_state = TCP_CA_Loss,
                            !.full_bw = 0,
                            !.round_start = TRUE], rs, e)
    ELSE sk

(***************************************************************************)
(* The host: the socket at the time bbrplus_init is called, and what the   *)
(* TCP stack does to the socket before it calls a hook                     *)
(***************************************************************************)
(* A socket on which no hook has run: the private area is zeroed.          *)
NewSock(clamp, srtt_us, max_rate) ==
    [ \* struct bbrplus
      min_rtt_us |-> 0, min_rtt_stamp |-> 0, probe_rtt_done_stamp |-> 0,
      bw |-> minmax_reset(0, 0), rtt_cnt |-> 0, next_rtt_delivered |-> 0,
      cycle_mstamp |-> 0, mode |-> 0, prev_ca_state |-> 0,
      packet_conservation |-> FALSE, restore_cwnd |-> FALSE,
      round_start |-> FALSE, cycle_len |-> 0, tso_segs_goal |-> 0,
      idle_restart |-> FALSE, probe_rtt_round_done |-> FALSE,
      lt_is_sampling |-> FALSE, lt_rtt_cnt |-> 0, lt_use_bw |-> FALSE,
      lt_bw |-> 0, lt_last_delivered |-> 0, lt_last_stamp |-> 0,
      lt_last_lost |-> 0, pacing_gain |-> 0, cwnd_gain |-> 0,
      full_bw_cnt |-> 0, cycle_idx |-> 0, has_seen_rtt |-> FALSE,
      prior_cwnd |-> 0, full_bw |-> 0, ack_epoch_mstamp |-> 0,
      extra_acked |-> << 0, 0 >>, ack_epoch_acked |-> 0,
      extra_acked_win_rtts |-> 0, extra_acked_win_idx |-> 0,
      \* struct tcp_sock, struct sock, struct inet_connection_sock
      snd_cwnd |-> Min(TCP_INIT_CWND, clamp), snd_cwnd_clamp |-> clamp,
      sk_pacing_rate |-> 0, sk_max_pacing_rate |-> max_rate,
      app_limited |-> 0, delivered |-> 0, lost |-> 0,
      delivered_mstamp |-> 0, tcp_mstamp |-> 0,
      srtt_us |-> srtt_us,
      tcp_min_rtt |-> IF srtt_us = 0 THEN U32_MAX ELSE srtt_us \div 8,
      mss_cache |-> 1460, hdr_len |-> 40, icsk_ca_state |-> TCP_CA_Open,
      snd_ssthresh |-> TCP_INFINITE_SSTHRESH ]

(* The fields of struct bbrplus. *)
StructBbrplus ==
    { "min_rtt_us", "min_rtt_stamp", "probe_rtt_done_stamp", "bw", "rtt_cnt",
      "next_rtt_delivered", "cycle_mstamp", "mode", "prev_ca_state",
      "packet_conservation", "restore_cwnd", "round_start", "cycle_len",
      "tso_segs_goal", "idle_restart", "probe_rtt_round_done",
      "lt_is_sampling", "lt_rtt_cnt", "lt_use_bw", "lt_bw",
      "lt_last_delivered", "lt_last_stamp", "lt_last_lost", "pacing_gain",
      "cwnd_gain", "full_bw_cnt", "cycle_idx", "has_seen_rtt", "prior_cwnd",
      "full_bw", "ack_epoch_mstamp", "extra_acked", "ack_epoch_acked",
      "extra_acked_win_rtts", "extra_acked_win_idx" }

(* An ACK arrives: a is what the stack found in it.  tcp_ack() advances    *)
(* the clock and the delivered and lost counts, tcp_rate_gen() stamps the  *)
(* delivery and ends an app-limited phase whose bubble has been delivered, *)
(* tcp_rtt_estimator() takes the first RTT sample into srtt_us.            *)
tcp_ack(sk, a) ==
    LET now       == sk.tcp_mstamp + a.dt
        delivered == sk.delivered + a.acked_sacked
    IN  [sk EXCEPT !.tcp_mstamp = now,
                   !.delivered = delivered,
                   !.lost = sk.lost + a.losses,
                   !.delivered_mstamp = IF a.acked_sacked > 0 THEN now ELSE @,
                   !.app_limited = IF @ # 0 /\ after(delivered, @) THEN 0 ELSE @,
                   !.srtt_us = IF @ = 0 /\ a.rtt_us >= 0
                               THEN Max(1, a.rtt_us * 8) ELSE @]

(* The rate sample tcp_rate_gen() hands to cong_control: an interval of -1 *)
(* is the invalid sample (delivered = -1), an interval of 0 the empty one. *)
RateSample(sk, a) ==
    [delivered       |-> IF a.interval_us > 0
                         THEN sk.delivered + a.acked_sacked - a.prior_delivered
                         ELSE a.interval_us,
     interval_us     |-> a.interval_us,
     rtt_us          |-> a.rtt_us,
     losses          |-> a.losses,
     acked_sacked    |-> a.acked_sacked,
     prior_in_flight |-> a.prior_in_flight,
     prior_delivered |-> a.prior_delivered,
     is_app_limited  |-> a.is_app_limited]

(* What the hooks read from the host while they run. *)
HostEnv(a) ==
    [packets_in_flight |-> a.packets_in_flight,
     send_head         |-> a.send_head,
     snd_wnd_test      |-> a.snd_wnd_test,
     rand_mode         |-> a.rand_mode,
     rand_cycle        |-> a.rand_cycle]

RandEnv(r) ==
    [packets_in_flight |-> 0, send_head |-> TRUE, snd_wnd_test |-> TRUE,
     rand_mode |-> r, rand_cycle |-> r]

(***************************************************************************)
(* State and actions                                                       *)
(***************************************************************************)
(* sk is the socket: struct bbrplus and the tcp_sock and sock fields it     *)
(* reads and writes.  fed is a history variable: whether the last ACK fed  *)
(* its sample to the bandwidth filter, and the samples fed so far that can *)
(* still be the largest of a filter window, as pairs << round, sample >>.  *)
VARIABLES sk, fed

vars == << sk, fed >>

SampleBw(rs) == (rs.delivered * BW_UNIT) \div rs.interval_us

(* Whether bbrplus_update_bw hands the sample to minmax_running_max.       *)
Feeds(s, rs) ==
    /\ rs.delivered >= 0
    /\ rs.interval_us > 0
    /\ ~rs.is_app_limited \/ SampleBw(rs) >= bbrplus_max_bw(s)

(* The samples of log that are within the window that ends at round t.     *)
InWindow(log, t) == { p \in log : t - p[1] <= bbrplus_bw_rtts }

(* A sample fed no later than a sample at least as large is never again    *)
(* the largest of a window.                                                *)
Frontier(log) ==
    { p \in log : ~\E q \in log : q # p /\ q[1] >= p[1] /\ q[2] >= p[2] }

(* The largest sample fed within the window that ends at round t.          *)
WindowMax(log, t) ==
    LET w == { p[2] : p \in InWindow(log, t) } \cup {0}
    IN  CHOOSE v \in w : \A u \in w : u <= v

(* cong_control: tcp_ack() calls bbrplus_main with the sample of this ACK. *)
Ack(a) ==
    LET rs == RateSample(sk, a)
    IN  /\ sk' = bbrplus_main(tcp_ack(sk, a), rs, HostEnv(a))
        /\ fed' = IF Feeds(sk, rs)
                  THEN [hit |-> TRUE,
                        log |-> Frontier(InWindow(
                                    fed.log \cup { << sk'.rtt_cnt, SampleBw(rs) >> },
                                    sk'.rtt_cnt))]
                  ELSE [hit |-> FALSE, log |-> InWindow(fed.log, sk'.rtt_cnt)]

(* cwnd_event: mark is whether tcp_rate_check_app_limited() has marked the *)
(* flow application-limited (nothing in flight) before the event.          *)
CwndEvent(event, mark) ==
    /\ sk' = bbrplus_cwnd_event(
                 IF mark
                 THEN [sk EXCEPT !.app_limited =
                                     IF sk.delivered # 0 THEN sk.delivered ELSE 1]
                 ELSE sk, event)
    /\ UNCHANGED fed

(* set_state: tcp_set_ca_state() calls the hook, then stores the state.    *)
SetState(new_state, r) ==
    /\ sk' = [bbrplus_set_state(sk, new_state, RandEnv(r))
                  EXCEPT !.icsk_ca_state = new_state]
    /\ UNCHANGED fed

(* ssthresh: the stack stores the value the hook returns in snd_ssthresh.  *)
Ssthresh ==
    /\ sk' = [bbrplus_ssthresh(sk) EXCEPT !.snd_ssthresh = bbrplus_ssthresh_ret(sk)]
    /\ UNCHANGED fed

(* undo_cwnd: tcp_undo_cwnd_reduction() takes the window the hook returns. *)
UndoCwnd ==
    /\ sk' = [sk EXCEPT !.snd_cwnd = bbrplus_undo_cwnd(sk)]
    /\ UNCHANGED fed

(***************************************************************************)
(* Inputs and bounds                                                       *)
(***************************************************************************)
MaxTicks == 4
MaxDelivered == 6
MaxLost == 2

(* The clock advances in ticks of 5.05 s: two ticks expire the 10 s min-RTT *)
(* window, one tick outlasts the 200 ms of PROBE_RTT.                       *)
Tick == 5050 * USEC_PER_MSEC
Rtt == 2 * USEC_PER_SEC
Ival == USEC_PER_SEC

(* Kinds of sample, << interval_us, acked_sacked >>: the invalid sample    *)
(* (nothing newly delivered, or a delivery without timing), the empty      *)
(* sample, and valid samples that deliver one or two packets.              *)
Invalid0 == << -1, 0 >>
Invalid1 == << -1, 1 >>
Empty == << 0, 0 >>
Valid1 == << Ival, 1 >>
Valid2 == << Ival, 2 >>

(* The ACKs the stack can deliver in state sk: every combination of the    *)
(* given values within the bounds.  P is the positions of prior_delivered: *)
(* 0 is the current delivered count (the ACK starts a round), 1 is just    *)
(* before next_rtt_delivered (it does not).                                *)
Acks(MD, D, S, L, R, P, A, F, H, RM) ==
    { [dt |-> d, acked_sacked |-> s[2], losses |-> l, rtt_us |-> r,
       interval_us |-> s[1],
       prior_delivered |-> IF p = 0 THEN sk.delivered
                           ELSE Max(sk.next_rtt_delivered - 1, 0),
       is_app_limited |-> al, prior_in_flight |-> f, packets_in_flight |-> f,
       send_head |-> h, snd_wnd_test |-> h, rand_mode |-> rm, rand_cycle |-> rm] :
      d \in { x \in D : sk.tcp_mstamp + x <= MaxTicks * Tick },
      s \in { x \in S : sk.delivered + x[2] <= MD },
      l \in { x \in L : sk.lost + x <= MaxLost },
      r \in R, p \in P, al \in A, f \in F, h \in H, rm \in RM }

NoneFed == [hit |-> FALSE, log |-> { << 0, 0 >> }]

Init ==
    /\ \E srtt_us \in {0, 8 * Rtt} :
           sk = bbrplus_init(NewSock(20, srtt_us, 2147483647))
    /\ fed = NoneFed

(***************************************************************************)
(* Spec: rounds and bandwidth samples.  Every kind of sample, at either    *)
(* position in the round, app-limited or not, with in-flight data below or *)
(* above the BDP.                                                          *)
(***************************************************************************)
SpecAcks ==
    Acks(MaxDelivered, {0}, {Invalid0, Empty, Valid1, Valid2}, {0}, {-1},
         {0, 1}, BOOLEAN, {2, 12}, {TRUE}, {0})

Next ==
    \E a \in SpecAcks : Ack(a)

Spec == Init /\ [][Next]_vars

(***************************************************************************)
(* SpecRtt: the clock and RTT samples.  ACKs with and without newly        *)
(* delivered data arrive now or a tick later, carrying no RTT sample, the  *)
(* path RTT or twice the path RTT, with in-flight data below or above the  *)
(* PROBE_RTT target.                                                       *)
(***************************************************************************)
MaxDeliveredRtt == 1

RttAcks ==
    Acks(MaxDeliveredRtt, {0, Tick}, {Invalid0, Valid1}, {0},
         {-1, Rtt, 2 * Rtt}, {0}, {FALSE}, {2, 12}, {TRUE}, {0})

NextRtt ==
    \E a \in RttAcks : Ack(a)

SpecRtt == Init /\ [][NextRtt]_vars

(***************************************************************************)
(* SpecFullBw: the full-pipe detector.  Every ACK starts a round and       *)
(* delivers one or two packets; the connection may enter loss recovery by  *)
(* RTO and may restart transmission, app-limited or not.                   *)
(***************************************************************************)
FullBwAcks ==
    Acks(MaxDelivered, {0}, {Valid1, Valid2}, {0}, {-1}, {0}, {FALSE},
         {2, 12}, {TRUE}, {0})

NextFullBw ==
    \/ \E a \in FullBwAcks : Ack(a)
    \/ SetState(TCP_CA_Loss, 0)
    \/ \E mark \in BOOLEAN : CwndEvent(CA_EVENT_TX_START, mark)

SpecFullBw == Init /\ [][NextFullBw]_vars

(***************************************************************************)
(* SpecCwnd: the congestion window under loss.  Every ACK delivers one or  *)
(* two packets, with or without a newly lost packet, with in-flight data   *)
(* below or above the window; the connection moves between Open, Recovery  *)
(* and Loss.  The window clamp is low enough to be reached.                *)
(***************************************************************************)
MaxDeliveredCwnd == 3

InitCwnd ==
    /\ \E srtt_us \in {0, 8 * Rtt} :
           sk = bbrplus_init(NewSock(12, srtt_us, 2147483647))
    /\ fed = NoneFed

CwndAcks ==
    Acks(MaxDeliveredCwnd, {0}, {Valid1, Valid2}, {0, 1}, {-1}, {0}, {FALSE},
         {2, 12}, {TRUE}, {0})

NextCwnd ==
    \/ \E a \in CwndAcks : Ack(a)
    \/ \E st \in {TCP_CA_Open, TCP_CA_Recovery, TCP_CA_Loss} : SetState(st, 0)

SpecCwnd == InitCwnd /\ [][NextCwnd]_vars

(***************************************************************************)
(* SpecFilter: the bandwidth filter over more rounds than its window.      *)
(* Every ACK starts a round and delivers one packet, at the full rate, at  *)
(* half of it or at a quarter of it, app-limited or not.                   *)
(***************************************************************************)
MaxDeliveredFilter == 13

Slow1 == << 2 * Ival, 1 >>
Slower1 == << 4 * Ival, 1 >>

FilterAcks ==
    Acks(MaxDeliveredFilter, {0}, {Valid1, Slow1, Slower1}, {0}, {-1}, {0},
         BOOLEAN, {12}, {TRUE}, {0})

NextFilter ==
    \E a \in FilterAcks : Ack(a)

SpecFilter == Init /\ [][NextFilter]_vars

(***************************************************************************)
(* SpecLt: the long-term (policer) sampling.  Every ACK starts a round and *)
(* delivers one packet, now or a tick later, with or without a newly lost  *)
(* packet; an RTO starts the sampling.                                     *)
(***************************************************************************)
MaxDeliveredLt == 4

LtAcks ==
    Acks(MaxDeliveredLt, {0, Tick}, {Valid1}, {0, 1}, {-1}, {0}, BOOLEAN,
         {2}, {TRUE}, {0})

NextLt ==
    \/ \E a \in LtAcks : Ack(a)
    \/ SetState(TCP_CA_Loss, 0)

SpecLt == Init /\ [][NextLt]_vars

(***************************************************************************)
(* SpecNull: ACKs with the empty sample.  An ACK carries the empty sample  *)
(* or starts a round and delivers one packet, now or a tick later, with or *)
(* without an RTT sample, with in-flight data below or above the BDP.  The *)
(* connection has an RTT estimate from the handshake.                      *)
(***************************************************************************)
NullAcks ==
    Acks(MaxDelivered, {0, Tick}, {Empty, Valid1}, {0}, {-1, Rtt}, {0},
         {FALSE}, {2, 12}, {TRUE}, {0})

NextNull ==
    \E a \in NullAcks : Ack(a)

InitNull ==
    /\ sk = bbrplus_init(NewSock(20, 8 * Rtt, 2147483647))
    /\ fed = NoneFed

SpecNull == InitNull /\ [][NextNull]_vars

(***************************************************************************)
(* SpecModes: the four modes with long-term sampling.  Every ACK starts a  *)
(* round and delivers one packet, now or a tick later, with or without a   *)
(* newly lost packet, with in-flight data below or above the BDP; an RTO   *)
(* may strike while the long-term rate is in use or the sampling interval  *)
(* is shorter than the rounds it needs.  The random numbers drawn are the  *)
(* smallest and the largest.  The connection has an RTT estimate from the   *)
(* handshake.                                                              *)
(***************************************************************************)
MaxDeliveredModes == 4

Rands == {0, bbrplus_cycle_rand - 1}

ModesAcks ==
    Acks(MaxDeliveredModes, {0, Tick}, {Valid1}, {0, 1}, {-1}, {0}, {FALSE},
         {2, 12}, {TRUE}, Rands)

NextModes ==
    \/ \E a \in ModesAcks : Ack(a)
    \/ /\ sk.lt_use_bw \/ sk.lt_rtt_cnt < bbrplus_lt_intvl_min_rtts
       /\ \E r \in Rands : SetState(TCP_CA_Loss, r)

SpecModes == InitNull /\ [][NextModes]_vars

(***************************************************************************)
(* SpecCycle: the PROBE_BW gain cycle with drain-to-target.  Rounds at a   *)
(* steady rate fill the pipe; once in PROBE_BW an ACK arrives now or a     *)
(* tick later, with in-flight data below or above the targets, and either  *)
(* reports a newly lost packet or not, or is app-limited or not with or    *)
(* without data left to send.  Every ACK carries the path RTT, which keeps *)
(* the min-RTT window fresh.                                               *)
(***************************************************************************)
MaxDeliveredCycle == 7

CycleAcks ==
    IF sk.mode = BBRPLUS_PROBE_BW
    THEN Acks(MaxDeliveredCycle, {0, Tick}, {Valid1}, {0, 1}, {Rtt}, {0},
              {FALSE}, {2, 12}, {TRUE}, {0})
         \cup Acks(MaxDeliveredCycle, {0, Tick}, {Valid1}, {0}, {Rtt}, {0},
                   BOOLEAN, {2, 12}, BOOLEAN, {0})
    ELSE Acks(MaxDeliveredCycle, {0}, {Valid1}, {0}, {Rtt}, {0}, {FALSE},
              {2, 12}, {TRUE}, {0})

NextCycle ==
    \/ \E a \in CycleAcks : Ack(a)
    \/ SetState(TCP_CA_Loss, 0)

SpecCycle == InitNull /\ [][NextCycle]_vars

(***************************************************************************)
(* SpecLatch: a latched long-term bandwidth.  Every ACK delivers one       *)
(* packet.  Until lt_bw is latched an ACK comes now or a tick later,       *)
(* starts a round and may carry a loss; afterwards it comes at once and    *)
(* may or may not start a round.  An RTO may come at any time.             *)
(***************************************************************************)
MaxDeliveredLatch == 5

LatchAcks ==
    IF sk.lt_use_bw
    THEN Acks(MaxDeliveredLatch, {0}, {Valid1}, {0}, {-1}, {0, 1},
              {FALSE}, {2}, {TRUE}, {0})
    ELSE Acks(MaxDeliveredLatch, {0, Tick}, {Valid1}, {0, 1}, {-1}, {0},
              {FALSE}, {2}, {TRUE}, {0})

NextLatch ==
    \/ \E a \in LatchAcks : Ack(a)
    \/ SetState(TCP_CA_Loss, 0)

SpecLatch == InitNull /\ [][NextLatch]_vars

(***************************************************************************)
(* SpecProbeRtt: PROBE_RTT.  ACKs come now or a tick later; an ACK of new   *)
(* data finds in-flight data below or above the PROBE_RTT target and may,  *)
(* a tick later, carry an RTT sample; an ACK of no new data finds it       *)
(* below.  Transmission may restart from idle, and the connection may      *)
(* enter fast recovery (ssthresh, then the new state).                     *)
(***************************************************************************)
MaxDeliveredProbeRtt == 2

ProbeRttAcks ==
    Acks(MaxDeliveredProbeRtt, {0, Tick}, {Valid1}, {0}, {-1},
         {0}, {FALSE}, {2, 12}, {TRUE}, {0})
    \cup Acks(MaxDeliveredProbeRtt, {0, Tick}, {Invalid0}, {0}, {-1},
              {0}, {FALSE}, {2}, {TRUE}, {0})
    \cup Acks(MaxDeliveredProbeRtt, {Tick}, {Valid1}, {0}, {Rtt},
              {0}, {FALSE}, {12}, {TRUE}, {0})

NextProbeRtt ==
    \/ \E a \in ProbeRttAcks : Ack(a)
    \/ \E mark \in BOOLEAN : CwndEvent(CA_EVENT_TX_START, mark)
    \/ Ssthresh
    \/ SetState(TCP_CA_Recovery, 0)

SpecProbeRtt == InitNull /\ [][NextProbeRtt]_vars

(***************************************************************************)
(* SpecProbeRttExit: the way out of PROBE_RTT.  ACKs of new data come now  *)
(* or a tick later, with or without an RTT sample, with in-flight data     *)
(* below or above the PROBE_RTT target; an ACK of no new data comes a tick *)
(* later; while PROBE_RTT waits for its deadline an ACK may come 200 ms    *)
(* later.  Transmission may restart from idle.                             *)
(***************************************************************************)
MaxDeliveredExit == 4

ExitAcks ==
    Acks(MaxDeliveredExit, {0, Tick}, {Valid1}, {0}, {-1, Rtt},
         {0}, {FALSE}, {2, 12}, {TRUE}, {0})
    \cup Acks(MaxDeliveredExit, {Tick}, {Invalid0}, {0}, {-1},
              {0}, {FALSE}, {2}, {TRUE}, {0})
    \cup (IF /\ sk.mode = BBRPLUS_PROBE_RTT
              /\ sk.probe_rtt_done_stamp # 0
              /\ before(tcp_jiffies32(sk), sk.probe_rtt_done_stamp)
           THEN Acks(MaxDeliveredExit,
                     {bbrplus_probe_rtt_mode_ms * USEC_PER_MSEC}, {Valid1},
                     {0}, {-1}, {0}, {FALSE}, {2}, {TRUE}, {0})
           ELSE {})

NextExit ==
    \/ \E a \in ExitAcks : Ack(a)
    \/ CwndEvent(CA_EVENT_TX_START, TRUE)

SpecProbeRttExit == InitNull /\ [][NextExit]_vars

(***************************************************************************)
(* SpecIdle: restarts from idle.  Every ACK starts a round and delivers    *)
(* one packet, now or a tick later, with in-flight data below or above the *)
(* BDP; between ACKs the stack reports the start of a transmission or a    *)
(* cwnd restart, with the flow marked application-limited or not.          *)
(***************************************************************************)
MaxDeliveredIdle == 5

IdleAcks ==
    Acks(MaxDeliveredIdle, {0, Tick}, {Valid1}, {0}, {-1}, {0}, {FALSE},
         {2, 12}, {TRUE}, Rands)

CaEvents == {CA_EVENT_TX_START, CA_EVENT_CWND_RESTART}

NextIdle ==
    \/ \E a \in IdleAcks : Ack(a)
    \/ \E event \in CaEvents, mark \in BOOLEAN : CwndEvent(event, mark)

SpecIdle == InitNull /\ [][NextIdle]_vars

(***************************************************************************)
(* SpecState: changes of the CA state.  Every ACK starts a round and       *)
(* delivers one packet with data in flight below the BDP; until the        *)
(* long-term rate is in use it arrives now or a tick later, with or        *)
(* without a newly lost packet.  An RTO may strike while the long-term     *)
(* rate is in use or the sampling interval is shorter than the rounds it   *)
(* needs; the stack may report Open or Recovery until the long-term        *)
(* sampling starts.                                                        *)
(***************************************************************************)
MaxDeliveredState == 5

StateAcks ==
    IF sk.lt_use_bw
    THEN Acks(MaxDeliveredState, {0}, {Valid1}, {0}, {-1}, {0}, {FALSE},
              {2}, {TRUE}, {0})
    ELSE Acks(MaxDeliveredState, {0, Tick}, {Valid1}, {0, 1}, {-1}, {0},
              {FALSE}, {2}, {TRUE}, {0})

CaStates == {TCP_CA_Open, TCP_CA_Recovery, TCP_CA_Loss}

NextState ==
    \/ \E a \in StateAcks : Ack(a)
    \/ /\ sk.lt_use_bw \/ sk.lt_rtt_cnt < bbrplus_lt_intvl_min_rtts
       /\ SetState(TCP_CA_Loss, 0)
    \/ /\ ~sk.lt_use_bw /\ ~sk.lt_is_sampling
       /\ \E st \in CaStates \ {TCP_CA_Loss} : SetState(st, 0)

SpecState == InitNull /\ [][NextState]_vars

(***************************************************************************)
(* SpecPacing: the pacing rate.  The connection starts with or without an  *)
(* RTT estimate and with or without a low limit on the pacing rate; every  *)
(* ACK starts a round and delivers one packet at the usual rate or at      *)
(* eight times that rate, which is above the initial rate, with or without *)
(* an RTT sample, with in-flight data below or above the BDP.              *)
(***************************************************************************)
MaxDeliveredPacing == 5

LowMaxPacingRate == 3000

Fast1 == << Ival \div 8, 1 >>

InitPacing ==
    /\ \E srtt_us \in {0, 8 * Rtt}, max_rate \in {LowMaxPacingRate, 2147483647} :
           sk = bbrplus_init(NewSock(20, srtt_us, max_rate))
    /\ fed = NoneFed

PacingAcks ==
    Acks(MaxDeliveredPacing, {0}, {Valid1, Fast1}, {0}, {-1, Rtt}, {0},
         {FALSE}, {2, 12}, {TRUE}, {0})

NextPacing ==
    \E a \in PacingAcks : Ack(a)

SpecPacing == InitPacing /\ [][NextPacing]_vars

(***************************************************************************)
(* SpecSave: saving the congestion window.  The connection starts with a   *)
(* slow-start threshold from the route metrics.  ACKs come now or a tick   *)
(* later, of new data with in-flight data below or above the PROBE_RTT     *)
(* target or of no new data; the stack may ask for the slow-start          *)
(* threshold, undo a window reduction and report Open or Recovery at any   *)
(* time.                                                                   *)
(***************************************************************************)
MaxDeliveredSave == 2

MetricSsthresh == 20

InitSave ==
    /\ sk = bbrplus_init([NewSock(20, 8 * Rtt, 2147483647)
                              EXCEPT !.snd_ssthresh = MetricSsthresh])
    /\ fed = NoneFed

SaveAcks ==
    Acks(MaxDeliveredSave, {0, Tick}, {Valid1}, {0}, {-1}, {0}, {FALSE},
         {2, 12}, {TRUE}, {0})
    \cup Acks(MaxDeliveredSave, {0, Tick}, {Invalid0}, {0}, {-1}, {0},
              {FALSE}, {2}, {TRUE}, {0})

NextSave ==
    \/ \E a \in SaveAcks : Ack(a)
    \/ Ssthresh
    \/ UndoCwnd
    \/ \E st \in {TCP_CA_Open, TCP_CA_Recovery} : SetState(st, 0)

SpecSave == InitSave /\ [][NextSave]_vars

(***************************************************************************)
(* SpecDrain: DRAIN.  The connection starts with or without an RTT         *)
(* estimate; every ACK starts a round and delivers one packet, now or a    *)
(* tick later, with in-flight data at the BDP (2 packets), at the          *)
(* in-flight target at gain 1.0 (5 packets) or just above it.              *)
(***************************************************************************)
MaxDeliveredDrain == 5

DrainAcks ==
    Acks(MaxDeliveredDrain, {0, Tick}, {Valid1}, {0}, {-1}, {0}, {FALSE},
         {2, 5, 6}, {TRUE}, {0})

NextDrain ==
    \E a \in DrainAcks : Ack(a)

SpecDrain == Init /\ [][NextDrain]_vars

(***************************************************************************)
(* SpecGrow: growth of the window towards its target.  BBR+ is attached to *)
(* a connection that has delivered 8 packets already; every ACK starts a   *)
(* round and delivers one packet, with or without a newly lost packet:     *)
(* either at 1 packet/s with no RTT sample, or at 16 packets/s with an RTT *)
(* of 1/16 s, which lets the allowance for ACK aggregation be positive.    *)
(* The connection moves between Open and Recovery.                         *)
(***************************************************************************)
MaxDeliveredGrow == 13

DeliveredBefore == 8

InitGrow ==
    /\ sk = bbrplus_init([NewSock(20, 8 * Rtt, 2147483647)
                               EXCEPT !.delivered = DeliveredBefore])
    /\ fed = NoneFed

Fast16 == << Ival \div 16, 1 >>

GrowAcks ==
    Acks(MaxDeliveredGrow, {0}, {Valid1}, {0, 1}, {-1}, {0}, {FALSE},
         {2, 12}, {TRUE}, {0})
    \cup Acks(MaxDeliveredGrow, {0}, {Fast16}, {0, 1}, {Ival \div 16}, {0},
               {FALSE}, {2}, {TRUE}, {0})

NextGrow ==
    \/ \E a \in GrowAcks : Ack(a)
    \/ \E st \in {TCP_CA_Open, TCP_CA_Recovery} : SetState(st, 0)

SpecGrow == InitGrow /\ [][NextGrow]_vars

(***************************************************************************)
(* SpecRecover: packet conservation.  Every ACK delivers one packet, at    *)
(* the start of a round or within one, with in-flight data below or above  *)
(* the window; while packet conservation is on, an ACK may also deliver    *)
(* nothing.  The connection moves between Open, Recovery and Loss, with    *)
(* RTOs as long as the long-term sampling interval is short.               *)
(***************************************************************************)
MaxDeliveredRecover == 3

Valid0 == << Ival, 0 >>

RecoverAcks ==
    Acks(MaxDeliveredRecover, {0}, {Valid1}, {0}, {-1}, {0, 1}, {FALSE},
         {2, 12}, {TRUE}, {0})
    \cup IF sk.packet_conservation
         THEN Acks(MaxDeliveredRecover, {0}, {Valid0}, {0}, {-1}, {0, 1},
                   {FALSE}, {2}, {TRUE}, {0})
         ELSE {}

NextRecover ==
    \/ \E a \in RecoverAcks : Ack(a)
    \/ /\ sk.lt_use_bw \/ sk.lt_rtt_cnt < bbrplus_lt_intvl_min_rtts
       /\ sk.icsk_ca_state # TCP_CA_Loss
       /\ SetState(TCP_CA_Loss, 0)
    \/ \E st \in {TCP_CA_Open, TCP_CA_Recovery} \ {sk.icsk_ca_state} :
           SetState(st, 0)

SpecRecover == InitNull /\ [][NextRecover]_vars

(***************************************************************************)
(* SpecProbeBw: new probing cycles.  Rounds at a steady rate fill the      *)
(* pipe; once in PROBE_BW an ACK arrives now, 3 s or 6 s later (min_rtt_us *)
(* is 2 s), with in-flight data below or above the targets, or reports a   *)
(* newly lost packet, and RTOs may come while the long-term sampling       *)
(* interval is short or the long-term bandwidth is latched.  The host      *)
(* draws the smallest or the largest number, for the phase on entering     *)
(* PROBE_BW and for the length of a cycle.  No ACK carries an RTT sample,  *)
(* so the min-RTT window expires after 10 s.                               *)
(***************************************************************************)
MaxDeliveredProbeBw == 8

Pace == 3 * USEC_PER_SEC

ProbeBwAcks ==
    IF sk.mode # BBRPLUS_PROBE_BW
    THEN Acks(MaxDeliveredProbeBw, {0}, {Valid1}, {0}, {-1}, {0}, {FALSE},
              {2}, {TRUE}, Rands)
    ELSE IF sk.lt_use_bw
    THEN Acks(MaxDeliveredProbeBw, {0, 2 * Pace}, {Valid1}, {0}, {-1}, {0},
              {FALSE}, {2}, {TRUE}, Rands)
    ELSE Acks(MaxDeliveredProbeBw, {0, Pace, 2 * Pace}, {Valid1}, {0}, {-1},
              {0}, {FALSE}, {2, 12}, {TRUE}, Rands)
         \cup Acks(MaxDeliveredProbeBw, {0, Pace}, {Valid1}, {1}, {-1}, {0},
                   {FALSE}, {2}, {TRUE}, {0})

NextProbeBw ==
    \/ \E a \in ProbeBwAcks : Ack(a)
    \/ /\ sk.mode = BBRPLUS_PROBE_BW
       /\ sk.lt_use_bw \/ sk.lt_rtt_cnt < bbrplus_lt_intvl_min_rtts
       /\ SetState(TCP_CA_Loss, 0)

SpecProbeBw == InitNull /\ [][NextProbeBw]_vars

(***************************************************************************)
(* SpecInvalid: ACKs without a valid rate sample.  An ACK starts a round   *)
(* and delivers one packet, with a valid sample or with the invalid one,   *)
(* or carries the empty sample; it comes now or a tick later, with or      *)
(* without a newly lost packet and an RTT sample below the minimum, with   *)
(* in-flight data below or above the minimum target.  The connection moves *)
(* between Open and Recovery.                                              *)
(***************************************************************************)
MaxDeliveredInvalid == 2

InvalidAcks ==
    Acks(MaxDeliveredInvalid, {Tick}, {Empty}, {0}, {-1}, {0}, {FALSE},
         {2, 12}, {TRUE}, {0})
    \cup Acks(MaxDeliveredInvalid, {0}, {Invalid1}, {0, 1}, {-1, Rtt \div 2},
              {0}, {FALSE}, {2}, {TRUE}, {0})
    \cup Acks(MaxDeliveredInvalid, {0}, {Valid1}, {1}, {-1}, {0}, {FALSE},
              {2}, {TRUE}, {0})

NextInvalid ==
    \/ \E a \in InvalidAcks : Ack(a)
    \/ \E st \in {TCP_CA_Open, TCP_CA_Recovery} \ {sk.icsk_ca_state} :
           SetState(st, 0)

SpecInvalid == InitNull /\ [][NextInvalid]_vars

(***************************************************************************)
(* SpecArm: the start of the long-term sampling.  While no interval is     *)
(* open an ACK delivers one packet with a valid sample or with the invalid *)
(* one, starts a round or not, now or a tick later, with or without a      *)
(* newly lost packet, app-limited or not, and an RTO may strike; an open   *)
(* interval is ended by an app-limited ACK.                                *)
(***************************************************************************)
MaxDeliveredArm == 3

ArmAcks ==
    IF sk.lt_is_sampling \/ sk.lt_use_bw
    THEN Acks(MaxDeliveredArm, {0}, {Valid1}, {0}, {-1}, {0}, {TRUE}, {2},
              {TRUE}, {0})
    ELSE Acks(MaxDeliveredArm, {0, Tick}, {Invalid1, Valid1}, {0, 1}, {-1},
              {0, 1}, BOOLEAN, {2}, {TRUE}, {0})

NextArm ==
    \/ \E a \in ArmAcks : Ack(a)
    \/ /\ ~sk.lt_is_sampling /\ ~sk.lt_use_bw
       /\ SetState(TCP_CA_Loss, 0)

SpecArm == InitNull /\ [][NextArm]_vars

(***************************************************************************)
(* SpecLimited: app-limited ACKs and the long-term sampling.  Every ACK    *)
(* starts a round and delivers one packet.  Until an interval is open it   *)
(* reports a newly lost packet or not; while one is open it comes a tick   *)
(* later with a newly lost packet, or at once without, and then it may be  *)
(* app-limited, with a valid sample or the invalid one; once lt_bw is      *)
(* latched every ACK is app-limited and comes now or a tick later.  An RTO *)
(* may strike while lt_bw is latched or the interval is shorter than the   *)
(* rounds it needs.                                                        *)
(***************************************************************************)
MaxDeliveredLimited == 6

LimitedAcks ==
    IF sk.lt_use_bw
    THEN Acks(MaxDeliveredLimited, {0, Tick}, {Valid1}, {0}, {-1}, {0},
              {TRUE}, {2}, {TRUE}, {0})
    ELSE IF sk.lt_is_sampling
    THEN Acks(MaxDeliveredLimited, {0}, {Valid1}, {0}, {-1}, {0},
              BOOLEAN, {2}, {TRUE}, {0})
         \cup Acks(MaxDeliveredLimited, {Tick}, {Valid1}, {1}, {-1}, {0},
                   {FALSE}, {2}, {TRUE}, {0})
         \cup Acks(MaxDeliveredLimited, {0}, {Invalid1}, {0}, {-1}, {0},
                   {TRUE}, {2}, {TRUE}, {0})
    ELSE Acks(MaxDeliveredLimited, {0}, {Valid1}, {0, 1}, {-1}, {0},
              {FALSE}, {2}, {TRUE}, {0})

NextLimited ==
    \/ \E a \in LimitedAcks : Ack(a)
    \/ /\ sk.lt_use_bw \/ sk.lt_rtt_cnt < bbrplus_lt_intvl_min_rtts
       /\ SetState(TCP_CA_Loss, 0)

SpecLimited == InitNull /\ [][NextLimited]_vars

(***************************************************************************)
(* SpecInterval: the end of a long-term sampling interval.  The connection *)
(* is found in an open interval that has counted 3, 15 or 16 rounds and    *)
(* began, by the u32 millisecond clock, now, 1 ms ago, 4294966 or 4294967  *)
(* ms ago, or 2^32 - 1 ms ago (the clock has wrapped since; the start is   *)
(* 1 ms ahead of the clock).  An ACK delivers one packet with a valid      *)
(* sample, starts a round or not, now or a tick later, with or without a   *)
(* newly lost packet; an RTO may strike while an interval is open.         *)
(***************************************************************************)
MaxDeliveredInterval == 2

IntervalStarts == {0, -1, -4294966, -4294967, 1}

InitInterval ==
    /\ \E cnt \in {3, 15, 16}, stamp \in IntervalStarts :
           sk = [bbrplus_init(NewSock(20, 8 * Rtt, 2147483647))
                     EXCEPT !.lt_is_sampling = TRUE,
                            !.lt_rtt_cnt = cnt,
                            !.lt_last_stamp = stamp]
    /\ fed = NoneFed

IntervalAcks ==
    Acks(MaxDeliveredInterval, {0, Tick}, {Valid1}, {0, 1}, {-1}, {0, 1},
         {FALSE}, {2}, {TRUE}, {0})

NextInterval ==
    \/ \E a \in IntervalAcks : Ack(a)
    \/ /\ sk.lt_is_sampling
       /\ SetState(TCP_CA_Loss, 0)

SpecInterval == InitInterval /\ [][NextInterval]_vars

(***************************************************************************)
(* SpecRestart: ACKs after a restart from idle.  Every ACK starts a round  *)
(* and delivers one packet with a valid sample, now or a tick later, with  *)
(* or without an RTT measurement (of twice the initial minimum), with      *)
(* in-flight data below or above the PROBE_RTT floor; between ACKs the     *)
(* stack may report the start of a transmission on an application-limited  *)
(* flow.                                                                   *)
(***************************************************************************)
MaxDeliveredRestart == 5

RestartAcks ==
    Acks(MaxDeliveredRestart, {0, Tick}, {Valid1}, {0}, {-1, 2 * Rtt}, {0},
         {FALSE}, {2, 12}, {TRUE}, {0})

NextRestart ==
    \/ \E a \in RestartAcks : Ack(a)
    \/ /\ ~sk.idle_restart
       /\ CwndEvent(CA_EVENT_TX_START, TRUE)

SpecRestart == InitNull /\ [][NextRestart]_vars

(***************************************************************************)
(* SpecWide: ACK aggregation on a wide window.  The route's initial window *)
(* is 70000 packets and no RTT has been measured: bbrplus_init leaves the  *)
(* pacing rate at the socket's cap, the rate of 70000 packets per          *)
(* millisecond being above it.  Every ACK arrives in the same microsecond  *)
(* and newly acknowledges 100 packets, with an application-limited sample  *)
(* of 100 packets per second that starts a round.                          *)
(***************************************************************************)
MaxDeliveredWide == 65600

WideCwnd == 70000

Burst == << Ival, 100 >>

InitWide ==
    /\ sk = [bbrplus_init(NewSock(2147483647, 0, 2147483647))
                 EXCEPT !.snd_cwnd = WideCwnd,
                        !.sk_pacing_rate = 2147483647]
    /\ fed = NoneFed

WideAcks ==
    Acks(MaxDeliveredWide, {0}, {Burst}, {0}, {-1}, {0}, {TRUE}, {2},
         {TRUE}, {0})

NextWide == \E a \in WideAcks : Ack(a)

SpecWide == InitWide /\ [][NextWide]_vars

(***************************************************************************)
(* SpecEdges: the edges of the mode machine under every hook.  Every ACK   *)
(* starts a round and delivers one packet with a valid sample, now or a    *)
(* tick later, with in-flight data below or above the targets; between     *)
(* ACKs the stack may report the start of a transmission on an             *)
(* application-limited flow or an RTO, ask for the slow-start threshold or *)
(* undo a cwnd reduction.                                                  *)
(***************************************************************************)
MaxDeliveredEdges == 5

EdgesAcks ==
    Acks(MaxDeliveredEdges, {0, Tick}, {Valid1}, {0}, {-1}, {0}, {FALSE},
         {2, 12}, {TRUE}, {0})

NextEdges ==
    \/ \E a \in EdgesAcks : Ack(a)
    \/ /\ ~sk.idle_restart
       /\ CwndEvent(CA_EVENT_TX_START, TRUE)
    \/ /\ sk.prev_ca_state # TCP_CA_Loss
       /\ SetState(TCP_CA_Loss, 0)
    \/ Ssthresh
    \/ UndoCwnd

SpecEdges == InitNull /\ [][NextEdges]_vars

(***************************************************************************)
(* SpecFloor: the floor of the congestion window.  The window clamp is 1   *)
(* or 20.  Every ACK delivers one packet: at once, at the start of a round *)
(* or within one, with or without two newly lost packets, with nothing     *)
(* else in flight or in-flight data above the window; or a tick later at   *)
(* the start of a round, with nothing else in flight.  The connection      *)
(* moves between Open and Recovery, and the stack may undo a cwnd          *)
(* reduction.                                                              *)
(***************************************************************************)
MaxDeliveredFloor == 4

InitFloor ==
    /\ \E clamp \in {1, 20} :
           sk = bbrplus_init(NewSock(clamp, 8 * Rtt, 2147483647))
    /\ fed = NoneFed

FloorAcks ==
    Acks(MaxDeliveredFloor, {0}, {Valid1}, {0, 2}, {-1}, {0, 1}, {FALSE},
         {0, 12}, {TRUE}, {0})
    \cup Acks(MaxDeliveredFloor, {Tick}, {Valid1}, {0}, {-1}, {0}, {FALSE},
              {0}, {TRUE}, {0})

NextFloor ==
    \/ \E a \in FloorAcks : Ack(a)
    \/ \E st \in {TCP_CA_Open, TCP_CA_Recovery} \ {sk.icsk_ca_state} :
           SetState(st, 0)
    \/ UndoCwnd

SpecFloor == InitFloor /\ [][NextFloor]_vars

(***************************************************************************)
(* SpecLive: the end of PROBE_RTT.  Every ACK starts a round and delivers  *)
(* one packet: now or a tick later with in-flight data below or above the  *)
(* PROBE_RTT floor, or a tick later with a newly lost packet and in-flight *)
(* data above the floor.  The stack may report the start of a transmission *)
(* on an application-limited flow, and in PROBE_RTT an RTO while the       *)
(* long-term sampling allows.  While PROBE_RTT is under way ACKs keep      *)
(* arriving: a tick after the ACK before, at the start of a round, with 2  *)
(* packets in flight; two ticks beyond the other ACKs are allowed for      *)
(* them.                                                                   *)
(***************************************************************************)
MaxDeliveredLive == 4

LiveAcks ==
    Acks(MaxDeliveredLive, {0, Tick}, {Valid1}, {0}, {-1}, {0}, {FALSE},
         {2, 12}, {TRUE}, {0})
    \cup Acks(MaxDeliveredLive, {Tick}, {Valid1}, {1}, {-1}, {0}, {FALSE},
              {12}, {TRUE}, {0})

DueAcks ==
    { [dt |-> Tick, acked_sacked |-> s, losses |-> 0, rtt_us |-> -1,
       interval_us |-> Ival, prior_delivered |-> sk.delivered,
       is_app_limited |-> FALSE, prior_in_flight |-> 2,
       packets_in_flight |-> 2, send_head |-> TRUE, snd_wnd_test |-> TRUE,
       rand_mode |-> 0, rand_cycle |-> 0] :
      s \in { x \in {1} : /\ sk.mode = BBRPLUS_PROBE_RTT
                          /\ sk.tcp_mstamp + Tick <= (MaxTicks + 2) * Tick } }

ProbeRttAck ==
    \E a \in DueAcks : Ack(a)

NextLive ==
    \/ \E a \in LiveAcks \cup DueAcks : Ack(a)
    \/ CwndEvent(CA_EVENT_TX_START, TRUE)
    \/ /\ sk.mode = BBRPLUS_PROBE_RTT
       /\ sk.lt_use_bw \/ sk.lt_rtt_cnt < bbrplus_lt_intvl_min_rtts
       /\ SetState(TCP_CA_Loss, 0)

SpecLive == InitNull /\ [][NextLive]_vars /\ WF_vars(ProbeRttAck)

(***************************************************************************)
(* SpecSlow: long-term sampling on a very slow path.  Every ACK comes a    *)
(* tick after the one before and starts a round, it delivers one packet or *)
(* none with a valid sample, with or without a newly lost packet; an RTO   *)
(* may strike while the long-term sampling allows.  The clock runs two     *)
(* ticks longer than elsewhere, so that two sampling intervals fit in.     *)
(***************************************************************************)
MaxDeliveredSlow == 2

SlowAcks ==
    { [dt |-> Tick, acked_sacked |-> s, losses |-> l, rtt_us |-> -1,
       interval_us |-> Ival, prior_delivered |-> sk.delivered,
       is_app_limited |-> FALSE, prior_in_flight |-> 2,
       packets_in_flight |-> 2, send_head |-> TRUE, snd_wnd_test |-> TRUE,
       rand_mode |-> 0, rand_cycle |-> 0] :
      s \in { x \in {0, 1} : /\ sk.delivered + x <= MaxDeliveredSlow
                             /\ sk.tcp_mstamp + Tick <= (MaxTicks + 2) * Tick },
      l \in { x \in {0, 1} : sk.lost + x <= MaxLost } }

NextSlow ==
    \/ \E a \in SlowAcks : Ack(a)
    \/ /\ sk.lt_rtt_cnt < bbrplus_lt_intvl_min_rtts
       /\ ~sk.lt_use_bw
       /\ SetState(TCP_CA_Loss, 0)

SpecSlow == InitNull /\ [][NextSlow]_vars

(***************************************************************************)
(* Claims                                                                  *)
(***************************************************************************)

(* C1 as stated: after each ACK the published snd_cwnd is at least         *)
(* bbrplus_cwnd_min_target (4) and at most snd_cwnd_clamp, in loss         *)
(* recovery and packet conservation too.                                   *)
CwndFloorAndClamp ==
    /\ sk.snd_cwnd >= bbrplus_cwnd_min_target
    /\ sk.snd_cwnd <= sk.snd_cwnd_clamp

(* C1 as amended: an ACK that newly delivers data publishes a snd_cwnd of  *)
(* at least 1 and at most snd_cwnd_clamp, and of at least                  *)
(* min(bbrplus_cwnd_min_target, snd_cwnd_clamp) unless it leaves the       *)
(* connection in packet conservation.                                      *)
CwndBounds ==
    [][sk'.delivered > sk.delivered =>
           /\ sk'.snd_cwnd >= 1
           /\ sk'.snd_cwnd <= sk'.snd_cwnd_clamp
           /\ ~sk'.packet_conservation =>
                  sk'.snd_cwnd >= Min(bbrplus_cwnd_min_target,
                                      sk'.snd_cwnd_clamp)]_vars

(* An ACK in the first round of Recovery, with a packet lost, has          *)
(* published a window below bbrplus_cwnd_min_target by packet              *)
(* conservation.                                                           *)
ConservationBelowFloor ==
    /\ sk.packet_conservation
    /\ sk.icsk_ca_state = TCP_CA_Recovery
    /\ sk.lost > 0
    /\ sk.snd_cwnd < bbrplus_cwnd_min_target

(* C6: an ACK sets round_start exactly when its sample is valid and its    *)
(* prior_delivered is not before next_rtt_delivered; it then sets          *)
(* next_rtt_delivered to the delivered count and adds one to rtt_cnt.      *)
(* Every other ACK ends with round_start false.                            *)
RoundStartRule ==
    [][\A a \in SpecAcks :
          Ack(a) =>
              LET rs    == RateSample(sk, a)
                  start == /\ rs.delivered >= 0
                           /\ rs.interval_us > 0
                           /\ ~before(rs.prior_delivered, sk.next_rtt_delivered)
              IN  /\ sk'.round_start = start
                  /\ start => /\ sk'.next_rtt_delivered = sk'.delivered
                              /\ sk'.rtt_cnt = sk.rtt_cnt + 1
                  /\ ~start => sk'.rtt_cnt = sk.rtt_cnt]_vars

(* A round has started on a later ACK, and a valid ACK inside the round    *)
(* has left round_start false since.                                       *)
RoundStartSeen ==
    /\ sk.rtt_cnt >= 2
    /\ ~sk.round_start
    /\ sk.delivered > sk.next_rtt_delivered

(* C8: an app-limited ACK never lowers the windowed maximum bandwidth; its *)
(* sample enters the filter only when it is at least the current maximum,  *)
(* and otherwise the filter is left as it was.                             *)
AppLimitedNeverLowers ==
    [][\A a \in SpecAcks :
          (a.is_app_limited /\ Ack(a)) =>
              LET rs == RateSample(sk, a)
              IN  /\ bbrplus_max_bw(sk') >= bbrplus_max_bw(sk)
                  /\ \/ rs.interval_us <= 0
                     \/ (rs.delivered * BW_UNIT) \div rs.interval_us
                            < bbrplus_max_bw(sk)
                     => sk'.bw = sk.bw]_vars

(* The flow is marked app-limited by an ACK whose sample was below the     *)
(* maximum: the filter holds a maximum above the smallest valid sample     *)
(* while the delivered count has moved past the round that set it.         *)
AppLimitedSkipped ==
    /\ bbrplus_max_bw(sk) > BW_UNIT \div Ival
    /\ sk.bw[1].t < sk.rtt_cnt
    /\ sk.delivered = MaxDelivered

(* C10: an ACK raises min_rtt_us only when the 10 s filter window has      *)
(* expired; an ACK without an RTT sample (rtt_us < 0) never changes it;    *)
(* and whenever an ACK changes it, min_rtt_stamp is the time of that ACK.  *)
MinRttRaisedOnlyOnExpiry ==
    [][/\ U32Gt(sk'.min_rtt_us, sk.min_rtt_us) =>
              after(tcp_jiffies32(sk'),
                    sk.min_rtt_stamp + bbrplus_min_rtt_win_sec * HZ)
       /\ sk'.min_rtt_us # sk.min_rtt_us =>
              sk'.min_rtt_stamp = tcp_jiffies32(sk')
       /\ \A a \in { x \in RttAcks : x.rtt_us < 0 } :
              Ack(a) => sk'.min_rtt_us = sk.min_rtt_us]_vars

(* The estimate started at the path RTT and an ACK after the window        *)
(* expired has raised it to twice that.                                    *)
MinRttRaised ==
    /\ sk.tcp_min_rtt = Rtt
    /\ sk.min_rtt_us = 2 * Rtt
    /\ sk.min_rtt_stamp = tcp_jiffies32(sk)

(* C2: whenever the mode is PROBE_RTT, the published snd_cwnd is at most   *)
(* bbrplus_cwnd_min_target (4), after every ACK whatever its acked_sacked, *)
(* starting with the ACK that enters PROBE_RTT.                            *)
ProbeRttCwndCapped ==
    sk.mode = BBRPLUS_PROBE_RTT => sk.snd_cwnd <= bbrplus_cwnd_min_target

(* C4: cycle_idx is always within [0, 7], and whenever the mode is         *)
(* PROBE_BW cycle_len is within [2, 8], also right after PROBE_BW is       *)
(* entered.                                                                *)
CycleBounds ==
    /\ sk.cycle_idx \in 0..(CYCLE_LEN - 1)
    /\ sk.mode = BBRPLUS_PROBE_BW =>
           sk.cycle_len \in (CYCLE_LEN - bbrplus_cycle_rand + 1)..CYCLE_LEN

(* C5: once full_bw_cnt has reached 3, full_bw_reached stays true through  *)
(* every later ACK, TX_START event and set_state(LOSS); set_state(LOSS)    *)
(* zeroes full_bw; and full_bw_cnt never exceeds 3.                        *)
FullBwReachedSticks ==
    [][/\ bbrplus_full_bw_reached(sk) => bbrplus_full_bw_reached(sk')
       /\ sk'.full_bw_cnt <= bbrplus_full_bw_cnt
       /\ SetState(TCP_CA_Loss, 0) => sk'.full_bw = 0]_vars

(* The pipe was found full, an RTO has since zeroed full_bw, and a         *)
(* transmission restart has been seen after that.                          *)
FullBwReachedThenLoss ==
    /\ sk.full_bw_cnt = bbrplus_full_bw_cnt
    /\ sk.full_bw = 0
    /\ sk.prev_ca_state = TCP_CA_Loss
    /\ sk.idle_restart

(* C7 as stated: after any ACK, bbrplus_max_bw is at most the largest      *)
(* sample fed to the bandwidth filter within the last bbrplus_bw_rtts (10) *)
(* rounds counted by rtt_cnt.                                              *)
MaxBwWithinWindow ==
    bbrplus_max_bw(sk) <= WindowMax(fed.log, sk.rtt_cnt)

(* C7 as amended: after an ACK that feeds its sample to the bandwidth      *)
(* filter, bbrplus_max_bw is at most the largest sample fed within the     *)
(* last 10 rounds; an ACK that feeds none leaves the filter as it was.     *)
MaxBwWithinWindowWhenFed ==
    [][/\ fed'.hit => bbrplus_max_bw(sk') <= WindowMax(fed'.log, sk'.rtt_cnt)
       /\ ~fed'.hit => sk'.bw = sk.bw]_vars

(* More rounds than the window have passed, the last ACK fed its sample,   *)
(* and the filter has dropped the early full-rate sample: its maximum is   *)
(* below that rate.                                                        *)
OldMaxAgedOut ==
    /\ fed.hit
    /\ sk.rtt_cnt > bbrplus_bw_rtts
    /\ bbrplus_max_bw(sk) > 0
    /\ bbrplus_max_bw(sk) < BW_UNIT \div Ival
    /\ sk.full_bw >= BW_UNIT \div Ival

(* C3: after every handler, lt_use_bw implies pacing_gain = BBRPLUS_UNIT   *)
(* (1.0), from the ACK that latches lt_use_bw until the long-term sampling *)
(* is reset, across any mode change in between.                            *)
LtUseBwPacesAtUnit ==
    sk.lt_use_bw => sk.pacing_gain = BBRPLUS_UNIT

(* C9 as stated: an ACK with the null sample (delivered = 0, interval_us = *)
(* 0, acked_sacked = 0) leaves every field of struct bbrplus but           *)
(* round_start as it was, in every mode and at every time.                 *)
NullAckChangesNothing ==
    [][\A a \in { x \in NullAcks : x.interval_us = 0 } :
          Ack(a) => \A f \in StructBbrplus \ { "round_start" } :
                        sk'[f] = sk[f]]_vars

(* The fields no ACK with the null sample writes: the bandwidth filter and *)
(* the round count, the full-pipe detector, the long-term sampling, the    *)
(* ACK aggregation, the loss-recovery state and the congestion window.     *)
NullAckKeeps ==
    { "bw", "rtt_cnt", "full_bw", "full_bw_cnt", "lt_is_sampling",
      "lt_rtt_cnt", "lt_use_bw", "lt_bw", "lt_last_delivered",
      "lt_last_stamp", "lt_last_lost", "ack_epoch_mstamp", "extra_acked",
      "ack_epoch_acked", "extra_acked_win_rtts", "extra_acked_win_idx",
      "packet_conservation", "prev_ca_state", "snd_cwnd" }

(* C9 as amended: an ACK with the null sample (in SpecNull, the ACKs that  *)
(* leave the delivered count as it was) ends with round_start false and    *)
(* leaves the fields of NullAckKeeps as they were.                         *)
NullAckFrame ==
    [][sk'.delivered = sk.delivered =>
           /\ ~sk'.round_start
           /\ \A f \in NullAckKeeps : sk'[f] = sk[f]]_vars

(* Only ACKs with the null sample have arrived, and one of them found the  *)
(* min-RTT window expired and entered PROBE_RTT: the mode, the gains and   *)
(* the saved window have changed, the congestion window has not.           *)
NullAckEnteredProbeRtt ==
    /\ sk.delivered = 0
    /\ sk.mode = BBRPLUS_PROBE_RTT
    /\ sk.prior_cwnd = sk.snd_cwnd
    /\ sk.snd_cwnd > bbrplus_cwnd_min_target

(* C11 as stated: after every handler the gains match the mode table:      *)
(* STARTUP has pacing_gain = cwnd_gain = bbrplus_high_gain, DRAIN has      *)
(* pacing_gain = bbrplus_drain_gain and cwnd_gain = bbrplus_high_gain,     *)
(* PROBE_BW has cwnd_gain = bbrplus_cwnd_gain, PROBE_RTT has both at       *)
(* BBRPLUS_UNIT.                                                           *)
GainsMatchMode ==
    /\ sk.mode = BBRPLUS_STARTUP =>
           /\ sk.pacing_gain = bbrplus_high_gain
           /\ sk.cwnd_gain = bbrplus_high_gain
    /\ sk.mode = BBRPLUS_DRAIN =>
           /\ sk.pacing_gain = bbrplus_drain_gain
           /\ sk.cwnd_gain = bbrplus_high_gain
    /\ sk.mode = BBRPLUS_PROBE_BW => sk.cwnd_gain = bbrplus_cwnd_gain
    /\ sk.mode = BBRPLUS_PROBE_RTT =>
           /\ sk.pacing_gain = BBRPLUS_UNIT
           /\ sk.cwnd_gain = BBRPLUS_UNIT

(* C11 as amended: cwnd_gain matches the mode table after every handler,   *)
(* and so does pacing_gain in PROBE_RTT; in STARTUP and DRAIN pacing_gain  *)
(* matches the table while lt_use_bw is not set.                           *)
GainsMatchModeUnlessLt ==
    /\ sk.mode = BBRPLUS_STARTUP =>
           /\ ~sk.lt_use_bw => sk.pacing_gain = bbrplus_high_gain
           /\ sk.cwnd_gain = bbrplus_high_gain
    /\ sk.mode = BBRPLUS_DRAIN =>
           /\ ~sk.lt_use_bw => sk.pacing_gain = bbrplus_drain_gain
           /\ sk.cwnd_gain = bbrplus_high_gain
    /\ sk.mode = BBRPLUS_PROBE_BW => sk.cwnd_gain = bbrplus_cwnd_gain
    /\ sk.mode = BBRPLUS_PROBE_RTT =>
           /\ sk.pacing_gain = BBRPLUS_UNIT
           /\ sk.cwnd_gain = BBRPLUS_UNIT

(* The long-term sampling has latched lt_use_bw in DRAIN and set           *)
(* pacing_gain to BBRPLUS_UNIT there.                                      *)
LtLatchedInDrain ==
    /\ sk.mode = BBRPLUS_DRAIN
    /\ sk.lt_use_bw
    /\ sk.pacing_gain = BBRPLUS_UNIT
    /\ sk.cwnd_gain = bbrplus_high_gain

(* C12: an ACK counts for full-bw detection exactly when it starts a round *)
(* with a sample that is not app-limited while full bw is not yet reached; *)
(* it then takes the maximum bandwidth as full_bw and zeroes full_bw_cnt   *)
(* if the maximum is at least 5/4 of full_bw, and adds one to full_bw_cnt  *)
(* otherwise, so that full bw is reached by the third such round in a row; *)
(* every other ACK leaves full_bw and full_bw_cnt as they were.            *)
FullBwCountsRounds ==
    [][\A a \in SpecAcks :
          Ack(a) =>
              LET counts == /\ sk'.round_start
                            /\ ~a.is_app_limited
                            /\ ~bbrplus_full_bw_reached(sk)
                  grown  == bbrplus_max_bw(sk') >= (sk.full_bw * 5) \div 4
              IN  /\ (counts /\ grown) =>
                         /\ sk'.full_bw = bbrplus_max_bw(sk')
                         /\ sk'.full_bw_cnt = 0
                  /\ (counts /\ ~grown) =>
                         /\ sk'.full_bw = sk.full_bw
                         /\ sk'.full_bw_cnt = sk.full_bw_cnt + 1
                  /\ ~counts =>
                         /\ sk'.full_bw = sk.full_bw
                         /\ sk'.full_bw_cnt = sk.full_bw_cnt
                  /\ (bbrplus_full_bw_reached(sk')
                         /\ ~bbrplus_full_bw_reached(sk)) =>
                         /\ counts /\ ~grown
                         /\ sk.full_bw_cnt = bbrplus_full_bw_cnt - 1]_vars

(* Four rounds have started, one of them at twice the rate of the others:  *)
(* full_bw is the doubled rate and full_bw_cnt is zero.                    *)
FullBwGrew ==
    /\ sk.full_bw > BW_UNIT \div Ival
    /\ sk.full_bw_cnt = 0
    /\ sk.rtt_cnt = 4
    /\ sk.delivered = 5

(* A handler enters PROBE_BW: from another mode, or anew when it stops     *)
(* using the long-term bandwidth.                                          *)
EntersProbeBw ==
    /\ sk'.mode = BBRPLUS_PROBE_BW
    /\ sk.mode # BBRPLUS_PROBE_BW \/ (sk.lt_use_bw /\ ~sk'.lt_use_bw)

(* C13: every entry into PROBE_BW sets cycle_idx to (7 - r + 1) mod 8 for  *)
(* the random r in 0..6 that the host draws and pacing_gain to the value   *)
(* of the gain table at that index; the index is never that of the         *)
(* 3/4-gain phase.                                                         *)
ProbeBwEntryPhase ==
    [][EntersProbeBw =>
           /\ sk'.cycle_idx \in { (CYCLE_LEN - 1 - r + 1) % CYCLE_LEN :
                                     r \in 0..(bbrplus_cycle_rand - 1) }
           /\ sk'.cycle_idx # BBRPLUS_BW_PROBE_DOWN
           /\ sk'.pacing_gain = bbrplus_pacing_gain[sk'.cycle_idx]
           /\ \A a \in ModesAcks :
                  Ack(a) => sk'.cycle_idx =
                                (CYCLE_LEN - 1 - a.rand_mode + 1) % CYCLE_LEN
           /\ \A r \in Rands :
                  SetState(TCP_CA_Loss, r) =>
                      sk'.cycle_idx = (CYCLE_LEN - 1 - r + 1) % CYCLE_LEN]_vars

(* PROBE_BW has been entered for the first time (no gain cycle has been    *)
(* started since) with the largest random number: the phase is the one     *)
(* after the 3/4-gain phase, at gain 1.0.                                  *)
ProbeBwEnteredAtCruise ==
    /\ sk.mode = BBRPLUS_PROBE_BW
    /\ sk.cycle_idx = BBRPLUS_BW_PROBE_CRUISE
    /\ sk.pacing_gain = BBRPLUS_UNIT
    /\ sk.cycle_len = 0
    /\ sk.cycle_mstamp = sk.delivered_mstamp

(* The handler is the ACK a.                                               *)
IsAck(a) ==
    /\ sk'.tcp_mstamp = sk.tcp_mstamp + a.dt
    /\ sk'.delivered = sk.delivered + a.acked_sacked
    /\ sk'.lost = sk.lost + a.losses
    /\ Ack(a)

(* A handler moves the gain cycle from phase i to phase j within PROBE_BW, *)
(* without entering PROBE_BW anew.                                         *)
PhaseStep(i, j) ==
    /\ sk.mode = BBRPLUS_PROBE_BW
    /\ sk'.mode = BBRPLUS_PROBE_BW
    /\ ~EntersProbeBw
    /\ sk.cycle_idx = i
    /\ sk'.cycle_idx = j

(* C14: within PROBE_BW the phase moves from UP to DOWN only on an ACK     *)
(* that comes more than min_rtt_us after the cycle start and has           *)
(* prior_in_flight at or above the in-flight target at the probe-up gain,  *)
(* or a loss, or an app-limited sample, or no send head, or an exhausted   *)
(* send window; from DOWN to CRUISE only on an ACK with prior_in_flight at *)
(* or below the in-flight target at gain 1.0; never from UP to CRUISE nor  *)
(* from CRUISE to DOWN.                                                    *)
CyclePhaseSteps ==
    [][/\ PhaseStep(BBRPLUS_BW_PROBE_UP, BBRPLUS_BW_PROBE_DOWN) =>
              /\ \E a \in CycleAcks : IsAck(a)
              /\ U32Gt(tcp_stamp_us_delta(sk'.delivered_mstamp, sk.cycle_mstamp),
                       sk.min_rtt_us)
              /\ \A a \in CycleAcks :
                     \/ a.losses > 0
                     \/ a.is_app_limited
                     \/ ~a.send_head
                     \/ ~a.snd_wnd_test
                     \/ a.prior_in_flight >=
                            bbrplus_inflight(sk, bbrplus_max_bw(sk'),
                                bbrplus_pacing_gain[BBRPLUS_BW_PROBE_UP])
                     \/ ~IsAck(a)
       /\ PhaseStep(BBRPLUS_BW_PROBE_DOWN, BBRPLUS_BW_PROBE_CRUISE) =>
              /\ \E a \in CycleAcks : IsAck(a)
              /\ \A a \in CycleAcks :
                     \/ a.prior_in_flight <=
                            bbrplus_inflight(sk, bbrplus_max_bw(sk'),
                                             BBRPLUS_UNIT)
                     \/ ~IsAck(a)
       /\ ~PhaseStep(BBRPLUS_BW_PROBE_UP, BBRPLUS_BW_PROBE_CRUISE)
       /\ ~PhaseStep(BBRPLUS_BW_PROBE_CRUISE, BBRPLUS_BW_PROBE_DOWN)]_vars

(* A gain cycle has been started and has gone from UP through DOWN to      *)
(* CRUISE.                                                                 *)
CycleReachedCruise ==
    /\ sk.mode = BBRPLUS_PROBE_BW
    /\ sk.cycle_idx = BBRPLUS_BW_PROBE_CRUISE
    /\ sk.pacing_gain = BBRPLUS_UNIT
    /\ sk.cycle_len = CYCLE_LEN

(* The long-term sampling interval as a handler finds it: its rounds, the  *)
(* packets lost and delivered in it, its length in ms and its bandwidth.   *)
LtRounds == sk.lt_rtt_cnt + (IF sk'.round_start THEN 1 ELSE 0)
LtLost == sk'.lost - sk.lt_last_lost
LtDelivered == sk'.delivered - sk.lt_last_delivered
LtMsecs == sk'.delivered_mstamp \div USEC_PER_MSEC - sk.lt_last_stamp
LtBw == (LtDelivered * BW_UNIT) \div (LtMsecs * USEC_PER_MSEC)

(* A loss event ends a sampling interval of at least 4 rounds with a loss  *)
(* rate of at least 50/256 and no app-limited sample.                      *)
LtIntervalEnds ==
    /\ sk.lt_is_sampling
    /\ ~sk.lt_use_bw
    /\ sk'.lost > sk.lost \/ \E r \in Rands : SetState(TCP_CA_Loss, r)
    /\ \A a \in LtAcks : Ack(a) => ~a.is_app_limited
    /\ LtRounds >= bbrplus_lt_intvl_min_rtts
    /\ LtRounds <= 4 * bbrplus_lt_intvl_min_rtts
    /\ LtDelivered > 0
    /\ LtLost * BBRPLUS_UNIT >= bbrplus_lt_loss_thresh * LtDelivered
    /\ LtMsecs >= 1

(* The interval's bandwidth is within 1/8 of the bandwidth of the interval *)
(* before it, or within 500 bytes per second of it.                        *)
LtConsistent ==
    /\ sk.lt_bw # 0
    /\ \/ Abs(LtBw - sk.lt_bw) * 8 <= sk.lt_bw
       \/ bbrplus_rate_bytes_per_sec(sk, Abs(LtBw - sk.lt_bw), BBRPLUS_UNIT)
              <= bbrplus_lt_bw_diff

(* C15: lt_use_bw becomes true only on a loss event that ends the second   *)
(* of two consecutive sampling intervals, each of at least 4 rounds with a *)
(* loss rate of at least 50/256 and no app-limited sample, with consistent *)
(* bandwidths; that event sets lt_bw to the mean of the two bandwidths,    *)
(* pacing_gain to BBRPLUS_UNIT and lt_rtt_cnt to 0.  An interval that ends *)
(* inconsistent with the one before puts its bandwidth into lt_bw and      *)
(* starts a new interval.                                                  *)
LtLatchRule ==
    [][/\ (~sk.lt_use_bw /\ sk'.lt_use_bw) =>
              /\ LtIntervalEnds
              /\ LtConsistent
              /\ sk'.lt_bw = (LtBw + sk.lt_bw) \div 2
              /\ sk'.pacing_gain = BBRPLUS_UNIT
              /\ sk'.lt_rtt_cnt = 0
       /\ (sk'.lt_bw # sk.lt_bw /\ sk'.lt_bw # 0) => LtIntervalEnds
       /\ (LtIntervalEnds /\ ~LtConsistent) =>
              /\ ~sk'.lt_use_bw
              /\ sk'.lt_bw = LtBw
              /\ sk'.lt_rtt_cnt = 0
              /\ sk'.lt_last_delivered = sk'.delivered
              /\ sk'.lt_last_lost = sk'.lost]_vars

(* A round of a latched lt_bw: the handler runs with lt_use_bw set, in     *)
(* PROBE_BW, at a round start.                                             *)
LtLatchedRound == sk.lt_use_bw /\ sk.mode = BBRPLUS_PROBE_BW /\ sk'.round_start

(* What happens to a latched lt_bw, apart from the count at which it ends: *)
(* lt_use_bw is cleared only at a round of PROBE_BW, together with lt_bw   *)
(* and lt_is_sampling, and by a fresh entry into PROBE_BW (which the same  *)
(* ACK may leave for PROBE_RTT); until then lt_rtt_cnt advances by one at  *)
(* each round of PROBE_BW and by none otherwise.                           *)
LtLatchedStep ==
    /\ (sk.lt_use_bw /\ ~sk'.lt_use_bw) =>
           /\ LtLatchedRound
           /\ sk'.lt_bw = 0
           /\ ~sk'.lt_is_sampling
           /\ sk'.lt_rtt_cnt = 0
           /\ sk'.mode \in {BBRPLUS_PROBE_BW, BBRPLUS_PROBE_RTT}
           /\ \E r \in 0 .. bbrplus_cycle_rand - 1 :
                  sk'.cycle_idx = (CYCLE_LEN - 1 - r + 1) % CYCLE_LEN
    /\ (sk.lt_use_bw /\ sk'.lt_use_bw) =>
           sk'.lt_rtt_cnt = sk.lt_rtt_cnt + (IF LtLatchedRound THEN 1 ELSE 0)

(* C16: a latched lt_use_bw stays set, lt_rtt_cnt advancing at each round  *)
(* start in PROBE_BW and at no round start in another mode, until          *)
(* lt_rtt_cnt exceeds 48; only then are lt_bw, lt_use_bw and               *)
(* lt_is_sampling cleared and PROBE_BW entered again at a random phase.    *)
LtExpiresAbove48 ==
    [][/\ LtLatchedStep
       /\ sk.lt_use_bw =>
              (sk'.lt_use_bw <=>
                   ~(LtLatchedRound
                     /\ sk.lt_rtt_cnt + 1 > bbrplus_lt_bw_max_rtts))]_vars

(* C16, amended: as above, but the latch ends at the round start that      *)
(* brings lt_rtt_cnt to 48.                                                *)
LtExpiresAt48 ==
    [][/\ LtLatchedStep
       /\ sk.lt_use_bw =>
              (sk'.lt_use_bw <=>
                   ~(LtLatchedRound
                     /\ sk.lt_rtt_cnt + 1 >= bbrplus_lt_bw_max_rtts))]_vars

(* C16 witness: a latched lt_bw has lasted 47 rounds of PROBE_BW, so the   *)
(* next round start ends it.                                               *)
LtLatchAboutToExpire ==
    /\ sk.lt_use_bw
    /\ sk.mode = BBRPLUS_PROBE_BW
    /\ sk.lt_rtt_cnt = bbrplus_lt_bw_max_rtts - 1

(* The min-RTT window has expired at the time of the handler.              *)
FilterExpired ==
    after(tcp_jiffies32(sk'), sk.min_rtt_stamp + bbrplus_min_rtt_win_sec * HZ)

(* A handler finds the window expired outside PROBE_RTT and outside an     *)
(* idle restart.                                                           *)
ProbeRttDue ==
    /\ FilterExpired
    /\ sk.mode # BBRPLUS_PROBE_RTT
    /\ ~sk.idle_restart

(* PROBE_RTT is entered only by an ACK that finds it due.                  *)
ProbeRttEntryOnlyWhenDue ==
    (sk.mode # BBRPLUS_PROBE_RTT /\ sk'.mode = BBRPLUS_PROBE_RTT) =>
        (ProbeRttDue /\ \E a \in ProbeRttAcks : IsAck(a))

(* The mode and the gains after an entry into PROBE_RTT.                   *)
ProbeRttGains ==
    /\ sk'.mode = BBRPLUS_PROBE_RTT
    /\ sk'.pacing_gain = BBRPLUS_UNIT
    /\ sk'.cwnd_gain = BBRPLUS_UNIT

(* C17: an ACK that finds the min-RTT window expired while mode is not     *)
(* PROBE_RTT and idle_restart is not set enters PROBE_RTT with both gains  *)
(* at BBRPLUS_UNIT, prior_cwnd the cwnd and probe_rtt_done_stamp 0;        *)
(* PROBE_RTT is entered in no other way.                                   *)
ProbeRttEntrySavesCwnd ==
    [][/\ ProbeRttEntryOnlyWhenDue
       /\ ProbeRttDue =>
              \A a \in ProbeRttAcks :
                  IsAck(a) =>
                      /\ ProbeRttGains
                      /\ sk'.prior_cwnd = sk.snd_cwnd
                      /\ sk'.probe_rtt_done_stamp = 0]_vars

(* C17, amended: as above, but prior_cwnd becomes the larger of its old    *)
(* value and the cwnd, and an entering ACK with at most                    *)
(* bbrplus_cwnd_min_target packets in flight arms probe_rtt_done_stamp.    *)
ProbeRttEntryKeepsLargerCwnd ==
    [][/\ ProbeRttEntryOnlyWhenDue
       /\ ProbeRttDue =>
              \A a \in ProbeRttAcks :
                  IsAck(a) =>
                      /\ ProbeRttGains
                      /\ sk'.prior_cwnd = Max(sk.prior_cwnd, sk.snd_cwnd)
                      /\ sk'.probe_rtt_done_stamp =
                             IF a.packets_in_flight <= bbrplus_cwnd_min_target
                             THEN tcp_jiffies32(sk')
                                      + msecs_to_jiffies(bbrplus_probe_rtt_mode_ms)
                             ELSE 0]_vars

(* C17 witness: PROBE_RTT was entered with more than                       *)
(* bbrplus_cwnd_min_target packets in flight, so that probe_rtt_done_stamp *)
(* is not armed, and a cwnd is kept in prior_cwnd.                         *)
ProbeRttEnteredUnarmed ==
    /\ sk.mode = BBRPLUS_PROBE_RTT
    /\ sk.probe_rtt_done_stamp = 0
    /\ sk.prior_cwnd > 0

(* The handler leaves PROBE_RTT.                                           *)
ProbeRttExit == sk.mode = BBRPLUS_PROBE_RTT /\ sk'.mode # BBRPLUS_PROBE_RTT

(* The conditions under which PROBE_RTT is left: by an ACK, with           *)
(* probe_rtt_done_stamp armed by an earlier ACK, a round start seen since, *)
(* and the time after probe_rtt_done_stamp; the ACK stamps min_rtt_stamp   *)
(* and goes to STARTUP or, with full bandwidth reached, to PROBE_BW.       *)
ProbeRttExitWhenDone ==
    ProbeRttExit =>
        /\ \E a \in ExitAcks : IsAck(a)
        /\ sk.probe_rtt_done_stamp # 0
        /\ sk.probe_rtt_round_done \/ sk'.round_start
        /\ after(tcp_jiffies32(sk'), sk.probe_rtt_done_stamp)
        /\ sk'.min_rtt_stamp = tcp_jiffies32(sk')
        /\ sk'.mode = IF bbrplus_full_bw_reached(sk')
                      THEN BBRPLUS_PROBE_BW ELSE BBRPLUS_STARTUP

(* probe_rtt_done_stamp is armed, in PROBE_RTT, only by an ACK with at     *)
(* most 4 packets in flight, to 200 ms after that ACK; an armed stamp is   *)
(* not moved, and the ACK that enters PROBE_RTT does not leave it.         *)
ProbeRttArming ==
    /\ (sk'.mode = BBRPLUS_PROBE_RTT
          /\ sk'.probe_rtt_done_stamp # 0
          /\ (sk.mode # BBRPLUS_PROBE_RTT \/ sk.probe_rtt_done_stamp = 0)) =>
           /\ sk'.probe_rtt_done_stamp =
                  tcp_jiffies32(sk') + msecs_to_jiffies(bbrplus_probe_rtt_mode_ms)
           /\ ~sk'.probe_rtt_round_done
           /\ \A a \in ExitAcks :
                  IsAck(a) => a.packets_in_flight <= bbrplus_cwnd_min_target
    /\ (sk.mode = BBRPLUS_PROBE_RTT /\ sk'.mode = BBRPLUS_PROBE_RTT
          /\ sk.probe_rtt_done_stamp # 0) =>
           sk'.probe_rtt_done_stamp = sk.probe_rtt_done_stamp
    /\ (sk.mode # BBRPLUS_PROBE_RTT /\ ProbeRttDue) =>
           \A a \in ExitAcks : IsAck(a) => sk'.mode = BBRPLUS_PROBE_RTT

(* C18: PROBE_RTT is left only by an ACK that finds probe_rtt_done_stamp   *)
(* armed by an earlier ACK of the episode (one with at most 4 packets in   *)
(* flight, to 200 ms after it), a round start seen since the arming and    *)
(* the time after probe_rtt_done_stamp; that ACK sets min_rtt_stamp to     *)
(* now and restore_cwnd to true and goes to STARTUP, or to PROBE_BW if     *)
(* full bandwidth is reached.  No ACK both enters and leaves PROBE_RTT.    *)
ProbeRttExitSetsRestore ==
    [][/\ ProbeRttExitWhenDone
       /\ ProbeRttArming
       /\ ProbeRttExit => sk'.restore_cwnd]_vars

(* C18, amended: as above, but restore_cwnd is left set only by an ACK     *)
(* that newly acknowledges nothing; otherwise the ACK restores the cwnd    *)
(* itself and clears the flag.                                             *)
ProbeRttExitRestores ==
    [][/\ ProbeRttExitWhenDone
       /\ ProbeRttArming
       /\ ProbeRttExit =>
              (sk'.restore_cwnd <=> sk'.delivered = sk.delivered)]_vars

(* C18 witness: PROBE_RTT has been left and the connection is in PROBE_BW, *)
(* min_rtt_stamp later than the armed probe_rtt_done_stamp.                *)
ProbeRttLeftForProbeBw ==
    /\ sk.mode = BBRPLUS_PROBE_BW
    /\ sk.probe_rtt_done_stamp # 0
    /\ after(sk.min_rtt_stamp, sk.probe_rtt_done_stamp)

(* An ACK of new data is the first one at or after an exit from PROBE_RTT: *)
(* it leaves PROBE_RTT itself, or finds restore_cwnd still set.            *)
RestoringAck ==
    /\ sk'.delivered > sk.delivered
    /\ ProbeRttExit \/ sk.restore_cwnd

(* C19: the first ACK with acked_sacked > 0 at or after the exit from      *)
(* PROBE_RTT publishes a snd_cwnd of at least min(prior_cwnd,              *)
(* snd_cwnd_clamp), prior_cwnd being the cwnd saved on entering PROBE_RTT, *)
(* and clears restore_cwnd.                                                *)
ExitRestoresPriorCwnd ==
    [][RestoringAck =>
           /\ sk'.snd_cwnd >= Min(sk.prior_cwnd, sk.snd_cwnd_clamp)
           /\ ~sk'.restore_cwnd]_vars

(* The target cwnd bbrplus_set_cwnd computes at the end of the handler.    *)
TargetCwnd ==
    bbrplus_quantization_budget(
        sk', bbrplus_bdp(sk', bbrplus_bw(sk'), sk'.cwnd_gain)
                 + bbrplus_ack_aggregation_cwnd(sk'), sk'.cwnd_gain)

(* What caps the cwnd after it is restored: the PROBE_RTT cwnd if the ACK  *)
(* enters PROBE_RTT again, the target cwnd once full bandwidth is reached. *)
RestoreCap ==
    IF sk'.mode = BBRPLUS_PROBE_RTT THEN bbrplus_cwnd_min_target
    ELSE IF bbrplus_full_bw_reached(sk') THEN TargetCwnd
    ELSE sk.prior_cwnd

(* C19, amended: the first ACK with acked_sacked > 0 at or after the exit  *)
(* from PROBE_RTT clears restore_cwnd and publishes a snd_cwnd of at least *)
(* min(prior_cwnd, snd_cwnd_clamp), or of at least the target cwnd when    *)
(* full bandwidth is reached and the target is lower, or of                *)
(* bbrplus_cwnd_min_target when that ACK enters PROBE_RTT again.           *)
ExitRestoresUpToTarget ==
    [][RestoringAck =>
           /\ sk'.snd_cwnd >=
                  Min(Min(sk.prior_cwnd, sk.snd_cwnd_clamp), RestoreCap)
           /\ ~sk'.restore_cwnd]_vars

(* C19 witness: an ACK has just left PROBE_RTT for PROBE_BW and restored   *)
(* the cwnd, which the target cwnd holds below prior_cwnd.                 *)
RestoredBelowPriorCwnd ==
    /\ sk.mode = BBRPLUS_PROBE_BW
    /\ sk.probe_rtt_done_stamp # 0
    /\ sk.min_rtt_stamp = tcp_jiffies32(sk)
    /\ ~sk.restore_cwnd
    /\ sk.snd_cwnd > bbrplus_cwnd_min_target
    /\ sk.snd_cwnd < sk.prior_cwnd

(* C20: cwnd_event(TX_START) with app_limited set sets idle_restart,       *)
(* starts a new ACK-aggregation epoch (ack_epoch_mstamp now,               *)
(* ack_epoch_acked 0) and, in PROBE_BW, publishes the pacing rate of the   *)
(* current bandwidth estimate at gain BBRPLUS_UNIT, outside PROBE_BW       *)
(* leaves the pacing rate alone; any other event, or app_limited not set,  *)
(* leaves struct bbrplus and the pacing rate unchanged.                    *)
IdleRestartPacesAtUnit ==
    [][\A event \in CaEvents, mark \in BOOLEAN :
           CwndEvent(event, mark) =>
               IF event = CA_EVENT_TX_START /\ (mark \/ sk.app_limited # 0)
               THEN /\ sk'.idle_restart
                    /\ sk'.ack_epoch_mstamp = sk.tcp_mstamp
                    /\ sk'.ack_epoch_acked = 0
                    /\ sk'.sk_pacing_rate =
                           IF sk.mode = BBRPLUS_PROBE_BW
                           THEN bbrplus_bw_to_pacing_rate(
                                    sk, bbrplus_bw(sk), BBRPLUS_UNIT)
                           ELSE sk.sk_pacing_rate
               ELSE \A f \in StructBbrplus \cup {"sk_pacing_rate"} :
                        sk'[f] = sk[f]]_vars

(* C20 witness: transmission has restarted from idle in a probing phase of *)
(* PROBE_BW, some time after the last ACK-aggregation epoch began, and the *)
(* pacing rate is that of the bandwidth estimate at gain BBRPLUS_UNIT.     *)
IdleRestartInProbeUp ==
    /\ sk.idle_restart
    /\ sk.mode = BBRPLUS_PROBE_BW
    /\ sk.pacing_gain > BBRPLUS_UNIT
    /\ sk.tcp_mstamp > 0
    /\ sk.ack_epoch_mstamp = sk.tcp_mstamp
    /\ sk.sk_pacing_rate > 0
    /\ sk.sk_pacing_rate =
           bbrplus_bw_to_pacing_rate(sk, bbrplus_bw(sk), BBRPLUS_UNIT)
    /\ sk.sk_pacing_rate <
           bbrplus_bw_to_pacing_rate(sk, bbrplus_bw(sk), sk.pacing_gain)

(* The long-term sampling state.                                           *)
LtState(s) ==
    << s.lt_is_sampling, s.lt_rtt_cnt, s.lt_use_bw, s.lt_bw,
       s.lt_last_delivered, s.lt_last_stamp, s.lt_last_lost >>

(* The long-term state is fully cleared and the interval restarted.        *)
LtCleared ==
    /\ ~sk'.lt_use_bw
    /\ ~sk'.lt_is_sampling
    /\ sk'.lt_bw = 0
    /\ sk'.lt_rtt_cnt = 0

(* One step of the long-term sampling on a loss event that ends a round    *)
(* and is not app-limited: a latched rate counts the round in PROBE_BW and *)
(* expires at 48; an idle sampler starts an interval, which the round      *)
(* brings to 1; a running interval counts one round, and stays as it is    *)
(* otherwise unless the round lets it end (4 rounds or more).              *)
LtLossRoundStep ==
    /\ sk.lt_use_bw /\ sk.mode # BBRPLUS_PROBE_BW => LtState(sk') = LtState(sk)
    /\ sk.lt_use_bw /\ sk.mode = BBRPLUS_PROBE_BW =>
           IF sk.lt_rtt_cnt + 1 >= bbrplus_lt_bw_max_rtts
           THEN LtCleared
           ELSE LtState(sk') = LtState([sk EXCEPT !.lt_rtt_cnt = sk.lt_rtt_cnt + 1])
    /\ ~sk.lt_use_bw /\ ~sk.lt_is_sampling =>
           LtState(sk') = << TRUE, 1, FALSE, sk.lt_bw, sk.delivered,
                             sk.delivered_mstamp \div USEC_PER_MSEC, sk.lost >>
    /\ ~sk.lt_use_bw /\ sk.lt_is_sampling =>
           /\ sk'.lt_rtt_cnt \in {sk.lt_rtt_cnt + 1, 0}
           /\ sk.lt_rtt_cnt + 1 < bbrplus_lt_intvl_min_rtts =>
                  sk'.lt_rtt_cnt = sk.lt_rtt_cnt + 1
           /\ sk'.lt_rtt_cnt = sk.lt_rtt_cnt + 1 =>
                  LtState(sk') = LtState([sk EXCEPT !.lt_rtt_cnt = sk.lt_rtt_cnt + 1])

(* C21: set_state(TCP_CA_Loss) sets full_bw to 0, round_start and          *)
(* prev_ca_state to Loss and runs one step of the long-term sampling on a  *)
(* loss that is not app-limited; it changes neither mode, snd_cwnd nor     *)
(* full_bw_cnt.  set_state with another CA state changes no field but the  *)
(* CA state the stack stores.                                              *)
SetStateLossEffects ==
    [][/\ SetState(TCP_CA_Loss, 0) =>
              /\ sk'.full_bw = 0
              /\ sk'.round_start
              /\ sk'.prev_ca_state = TCP_CA_Loss
              /\ sk'.mode = sk.mode
              /\ sk'.snd_cwnd = sk.snd_cwnd
              /\ sk'.full_bw_cnt = sk.full_bw_cnt
              /\ LtLossRoundStep
       /\ \A st \in CaStates \ {TCP_CA_Loss} :
              SetState(st, 0) =>
                  \A f \in DOMAIN sk \ {"icsk_ca_state"} : sk'[f] = sk[f]]_vars

(* An RTO has struck with the pipe found full and the long-term rate in    *)
(* use: full_bw is 0 while full_bw_cnt stands at its threshold.            *)
RtoAfterFullBw ==
    /\ sk.icsk_ca_state = TCP_CA_Loss
    /\ sk.prev_ca_state = TCP_CA_Loss
    /\ sk.round_start
    /\ sk.full_bw = 0
    /\ sk.full_bw_cnt = bbrplus_full_bw_cnt
    /\ sk.mode = BBRPLUS_PROBE_BW
    /\ sk.lt_use_bw
    /\ sk.lt_rtt_cnt > 0

(* The rate an ACK computes from the bandwidth estimate and the pacing     *)
(* gain it leaves behind.                                                  *)
NewRate(s) == bbrplus_bw_to_pacing_rate(s, bbrplus_bw(s), s.pacing_gain)

(* The ACK is the first to find an RTT estimate on a connection that had   *)
(* none when it was set up.                                                *)
FirstRttSeen == ~sk.has_seen_rtt /\ sk'.srtt_us # 0

(* The rate the ACK compares the new rate with: the current pacing rate,   *)
(* or on the first RTT estimate the initial rate computed anew from it.    *)
BaseRate ==
    IF FirstRttSeen
    THEN bbrplus_bw_to_pacing_rate(sk',
             (sk.snd_cwnd * BW_UNIT) \div Max(sk'.srtt_us \div 8, 1),
             bbrplus_high_gain)
    ELSE sk.sk_pacing_rate

(* C22 as stated: before full bw is reached every ACK publishes the larger *)
(* of the current pacing rate and the new rate; once full bw is reached it *)
(* publishes the new rate; the rate never exceeds sk_max_pacing_rate.      *)
PacingRateNeverDropsInStartup ==
    [][/\ sk'.sk_pacing_rate <= sk'.sk_max_pacing_rate
       /\ bbrplus_full_bw_reached(sk') => sk'.sk_pacing_rate = NewRate(sk')
       /\ ~bbrplus_full_bw_reached(sk') =>
              /\ sk'.sk_pacing_rate = Max(sk.sk_pacing_rate, NewRate(sk'))
              /\ sk'.sk_pacing_rate >= sk.sk_pacing_rate]_vars

(* C22 as amended: before full bw is reached every ACK publishes the       *)
(* larger of the new rate and the current pacing rate, except that the     *)
(* first ACK to find an RTT estimate on a connection set up without one    *)
(* takes the initial rate computed from that estimate in place of the      *)
(* current rate; on every other ACK before full bw the rate does not       *)
(* decrease.  Once full bw is reached every ACK publishes the new rate.    *)
(* The rate never exceeds sk_max_pacing_rate.                              *)
PacingRateRule ==
    [][/\ sk'.sk_pacing_rate <= sk'.sk_max_pacing_rate
       /\ bbrplus_full_bw_reached(sk') => sk'.sk_pacing_rate = NewRate(sk')
       /\ ~bbrplus_full_bw_reached(sk') =>
              /\ sk'.sk_pacing_rate = Max(BaseRate, NewRate(sk'))
              /\ ~FirstRttSeen => sk'.sk_pacing_rate >= sk.sk_pacing_rate]_vars

(* A connection set up without an RTT estimate has taken its first RTT     *)
(* sample before full bw was reached, and paces below the rate it was set  *)
(* up with.                                                                *)
PacingRateReinitialised ==
    /\ sk.tcp_min_rtt = U32_MAX
    /\ sk.has_seen_rtt
    /\ ~bbrplus_full_bw_reached(sk)
    /\ sk.sk_pacing_rate <
           bbrplus_bw_to_pacing_rate(sk,
               (TCP_INIT_CWND * BW_UNIT) \div USEC_PER_MSEC, bbrplus_high_gain)

(* The window bbrplus_save_cwnd keeps when it is called in state s.        *)
SavedCwnd(s) ==
    IF s.prev_ca_state < TCP_CA_Recovery /\ s.mode # BBRPLUS_PROBE_RTT
    THEN s.snd_cwnd
    ELSE Max(s.prior_cwnd, s.snd_cwnd)

(* C23: ssthresh sets prior_cwnd to snd_cwnd when prev_ca_state is below   *)
(* Recovery and the mode is not PROBE_RTT, and to the larger of prior_cwnd *)
(* and snd_cwnd otherwise; it returns TCP_INFINITE_SSTHRESH and changes    *)
(* nothing else.  An ACK that enters PROBE_RTT saves the window it found   *)
(* by the same rule with the mode already PROBE_RTT.  undo_cwnd returns    *)
(* snd_cwnd and changes no state.                                          *)
SaveCwndRule ==
    [][/\ Ssthresh =>
              /\ sk'.prior_cwnd = SavedCwnd(sk)
              /\ sk'.snd_ssthresh = TCP_INFINITE_SSTHRESH
              /\ \A f \in DOMAIN sk \ {"prior_cwnd", "snd_ssthresh"} :
                     sk'[f] = sk[f]
       /\ sk.mode # BBRPLUS_PROBE_RTT /\ sk'.mode = BBRPLUS_PROBE_RTT =>
              sk'.prior_cwnd =
                  SavedCwnd([sk EXCEPT !.mode = BBRPLUS_PROBE_RTT])
       /\ bbrplus_undo_cwnd(sk) = sk.snd_cwnd
       /\ UndoCwnd => sk' = sk]_vars

(* ssthresh has been called and a window saved before loss recovery is     *)
(* kept although the window is smaller now.                                *)
SavedCwndKept ==
    /\ sk.snd_ssthresh = TCP_INFINITE_SSTHRESH
    /\ sk.prev_ca_state = TCP_CA_Recovery
    /\ sk.mode # BBRPLUS_PROBE_RTT
    /\ sk.prior_cwnd > sk.snd_cwnd

(* The ACK finds the mode DRAIN, or is the ACK on which STARTUP finds the   *)
(* pipe full.                                                              *)
DrainChecked ==
    \/ sk.mode = BBRPLUS_DRAIN
    \/ sk.mode = BBRPLUS_STARTUP /\ bbrplus_full_bw_reached(sk')

(* C24 as stated: an ACK that finds the mode DRAIN, or moves STARTUP to    *)
(* DRAIN, ends in PROBE_BW exactly when the packets in flight are at most  *)
(* the BDP of the max-bw estimate at gain 1.0.                             *)
DrainLeavesAtBdp ==
    [][DrainChecked =>
           \A a \in DrainAcks :
               IsAck(a) =>
                   (sk'.mode = BBRPLUS_PROBE_BW <=>
                        a.packets_in_flight <=
                            bbrplus_bdp(sk, bbrplus_max_bw(sk'), BBRPLUS_UNIT))]_vars

(* C24 as amended: such an ACK leaves DRAIN for PROBE_BW exactly when the  *)
(* packets in flight are at most the BDP of the max-bw estimate at gain    *)
(* 1.0 plus three times the TSO segment goal, unless the ACK finds the     *)
(* min-RTT window expired: then it ends in PROBE_RTT.                      *)
DrainLeavesAtInflightTarget ==
    [][DrainChecked =>
           \A a \in DrainAcks :
               IsAck(a) =>
                   sk'.mode =
                       IF ProbeRttDue THEN BBRPLUS_PROBE_RTT
                       ELSE IF a.packets_in_flight <=
                                   bbrplus_bdp(sk, bbrplus_max_bw(sk'), BBRPLUS_UNIT)
                                       + 3 * sk.tso_segs_goal
                       THEN BBRPLUS_PROBE_BW
                       ELSE BBRPLUS_DRAIN]_vars

(* The connection is in PROBE_BW with no cycle length drawn yet, and the   *)
(* in-flight target at gain 1.0 that ended DRAIN is above the BDP.         *)
DrainLeftAboveBdp ==
    /\ sk.mode = BBRPLUS_PROBE_BW
    /\ sk.cycle_len = 0
    /\ sk.min_rtt_us # U32_MAX
    /\ bbrplus_inflight(sk, bbrplus_max_bw(sk), BBRPLUS_UNIT)
           > bbrplus_bdp(sk, bbrplus_max_bw(sk), BBRPLUS_UNIT)

(* What bbrplus_set_cwnd_to_recover_or_restore returns on ACK a: the       *)
(* window after the deduction of the losses and the restoration, and       *)
(* whether packet conservation handles the ACK.                            *)
Recovered(a) ==
    LET rs  == RateSample(sk, a)
        e   == HostEnv(a)
        sk1 == bbrplus_update_model(tcp_ack(sk, a), rs, e)
        sk2 == bbrplus_set_pacing_rate(sk1, bbrplus_bw(sk1), sk1.pacing_gain)
        sk3 == bbrplus_set_tso_segs_goal(sk2)
    IN  bbrplus_set_cwnd_to_recover_or_restore(sk3, rs, e, rs.acked_sacked)

(* The target window of socket s: the BDP at cwnd_gain plus the allowance  *)
(* for ACK aggregation, plus the quantization budget.                      *)
TargetOf(s) ==
    bbrplus_quantization_budget(
        s, bbrplus_bdp(s, bbrplus_bw(s), s.cwnd_gain)
               + bbrplus_ack_aggregation_cwnd(s), s.cwnd_gain)

(* The window published for a computed window cwnd: capped by the clamp    *)
(* and, in PROBE_RTT, by the minimum target.                               *)
Published(s, cwnd) ==
    IF s.mode = BBRPLUS_PROBE_RTT
    THEN Min(Min(cwnd, s.snd_cwnd_clamp), bbrplus_cwnd_min_target)
    ELSE Min(cwnd, s.snd_cwnd_clamp)

(* C25: on an ACK with acked_sacked > 0 that packet conservation does not  *)
(* handle, once full bw is reached the window is min(cwnd + acked, target) *)
(* floored at 4, so the published window is at most max(target, 4); before *)
(* full bw is reached the window grows by acked when cwnd < target or      *)
(* delivered < TCP_INIT_CWND and is left alone otherwise, never cut to the *)
(* target.                                                                 *)
CwndGrowsToTarget ==
    [][\A a \in GrowAcks :
           \/ a.acked_sacked = 0
           \/ ~IsAck(a)
           \/ Recovered(a).conserve
           \/ LET cwnd   == Recovered(a).cwnd
                  acked  == a.acked_sacked
                  target == TargetOf(sk')
              IN  IF bbrplus_full_bw_reached(sk')
                  THEN /\ sk'.snd_cwnd =
                              Published(sk', Max(Min(cwnd + acked, target),
                                                 bbrplus_cwnd_min_target))
                       /\ sk'.snd_cwnd <= Max(target, bbrplus_cwnd_min_target)
                  ELSE /\ sk'.snd_cwnd =
                              Published(sk',
                                  Max(IF cwnd < target
                                         \/ sk'.delivered < TCP_INIT_CWND
                                      THEN cwnd + acked ELSE cwnd,
                                      bbrplus_cwnd_min_target))
                       /\ sk'.mode # BBRPLUS_PROBE_RTT =>
                              sk'.snd_cwnd >= Min(cwnd, sk'.snd_cwnd_clamp)]_vars

(* The pipe is full, no ACK is under packet conservation and the window    *)
(* has been brought down from the initial 10 packets to the target.        *)
CwndCutToTarget ==
    /\ bbrplus_full_bw_reached(sk)
    /\ ~sk.packet_conservation
    /\ sk.mode # BBRPLUS_PROBE_RTT
    /\ sk.snd_cwnd = TargetOf(sk)
    /\ sk.snd_cwnd < TCP_INIT_CWND

(* The socket as bbrplus_set_cwnd finds it on ACK a.                       *)
BeforeSetCwnd(a) ==
    LET rs  == RateSample(sk, a)
        sk1 == bbrplus_update_model(tcp_ack(sk, a), rs, HostEnv(a))
    IN  bbrplus_set_tso_segs_goal(
            bbrplus_set_pacing_rate(sk1, bbrplus_bw(sk1), sk1.pacing_gain))

(* packet_conservation after ACK a, when the ACK enters Recovery exactly   *)
(* if entering holds: set on entering, cleared on leaving Recovery (both   *)
(* on an ACK with acked > 0) and at the start of a round, kept otherwise.  *)
ConservationAfter(a, entering) ==
    IF a.acked_sacked > 0 /\ entering
    THEN TRUE
    ELSE IF /\ a.acked_sacked > 0
            /\ sk.prev_ca_state >= TCP_CA_Recovery
            /\ sk.icsk_ca_state < TCP_CA_Recovery
    THEN FALSE
    ELSE IF sk'.round_start
    THEN FALSE
    ELSE sk.packet_conservation

(* The working cwnd of ACK a before packet conservation raises it: the     *)
(* window less the losses, in_flight + acked when the ACK enters Recovery, *)
(* raised to prior_cwnd when a restoration is pending.                     *)
WorkingCwnd(a, entering) ==
    LET s    == BeforeSetCwnd(a)
        cut  == IF a.losses > 0 THEN Max(s.snd_cwnd - a.losses, 1) ELSE s.snd_cwnd
        base == IF entering THEN a.packets_in_flight + a.acked_sacked ELSE cut
    IN  IF s.restore_cwnd THEN Max(base, s.prior_cwnd) ELSE base

(* C26 as stated: an ACK with acked > 0 sets packet_conservation exactly   *)
(* when the previous CA state was below Recovery and the current one is    *)
(* Recovery, with next_rtt_delivered := delivered and cwnd := in_flight +  *)
(* acked; it is cleared by the next ACK that starts a round or leaves      *)
(* Recovery, and while it is set the published cwnd is max(cwnd,           *)
(* in_flight + acked).                                                     *)
ConservationFromBelowRecovery ==
    [][\A a \in RecoverAcks :
           \/ ~IsAck(a)
           \/ LET entering == /\ sk.icsk_ca_state = TCP_CA_Recovery
                              /\ sk.prev_ca_state < TCP_CA_Recovery
                  inflight == a.packets_in_flight + a.acked_sacked
              IN  /\ sk'.packet_conservation = ConservationAfter(a, entering)
                  /\ a.acked_sacked > 0 /\ entering =>
                         /\ sk'.next_rtt_delivered = sk'.delivered
                         /\ sk'.snd_cwnd = inflight
                  /\ a.acked_sacked > 0 /\ sk'.packet_conservation =>
                         sk'.snd_cwnd = Max(WorkingCwnd(a, entering), inflight)]_vars

(* C26 as amended: an ACK with acked > 0 sets packet_conservation exactly  *)
(* when the current CA state is Recovery and the CA state recorded at the  *)
(* previous such ACK or RTO is not Recovery (it may be Loss), with         *)
(* next_rtt_delivered := delivered; it is cleared by an ACK that starts a  *)
(* round without entering Recovery, and by an ACK with acked > 0 that      *)
(* leaves Recovery; while it is set after an ACK with acked > 0 the        *)
(* published cwnd is max(cwnd, in_flight + acked) capped by the clamp and, *)
(* in PROBE_RTT, by 4, cwnd being in_flight + acked on entering Recovery   *)
(* and raised to prior_cwnd when a restoration is pending.                 *)
ConservationOnEnteringRecovery ==
    [][\A a \in RecoverAcks :
           \/ ~IsAck(a)
           \/ LET entering == /\ sk.icsk_ca_state = TCP_CA_Recovery
                              /\ sk.prev_ca_state # TCP_CA_Recovery
                  inflight == a.packets_in_flight + a.acked_sacked
              IN  /\ sk'.packet_conservation = ConservationAfter(a, entering)
                  /\ a.acked_sacked > 0 /\ entering =>
                         sk'.next_rtt_delivered = sk'.delivered
                  /\ a.acked_sacked > 0 /\ sk'.packet_conservation =>
                         sk'.snd_cwnd =
                             Published(sk', Max(WorkingCwnd(a, entering),
                                                inflight))]_vars

(* Packet conservation is on after an RTO: the state recorded before the   *)
(* ACK that entered Recovery was Loss.                                     *)
ConservingAfterLoss ==
    /\ sk.packet_conservation
    /\ sk.icsk_ca_state = TCP_CA_Recovery
    /\ sk.prev_ca_state = TCP_CA_Recovery
    /\ sk.next_rtt_delivered = sk.delivered
    /\ sk.lt_rtt_cnt > 0

(* The handler runs in PROBE_BW and finds delivered_mstamp more than       *)
(* cycle_len x min_rtt_us after cycle_mstamp.                              *)
CycleDue ==
    /\ sk.mode = BBRPLUS_PROBE_BW
    /\ U32Gt(tcp_stamp_us_delta(sk'.delivered_mstamp, sk.cycle_mstamp),
             U32Mul(sk.cycle_len, sk.min_rtt_us))

(* The handler is an ACK that starts a new probing cycle: the cycle is     *)
(* timed from delivered_mstamp, its length is 8 less the number drawn and  *)
(* the phase is UP.                                                        *)
StartsCycle ==
    /\ sk'.cycle_mstamp = sk'.delivered_mstamp
    /\ sk'.cycle_idx = BBRPLUS_BW_PROBE_UP
    /\ \A a \in ProbeBwAcks :
           \/ ~IsAck(a)
           \/ sk'.cycle_len =
                  CYCLE_LEN - prandom_u32_max(a.rand_cycle, bbrplus_cycle_rand)

(* C27 as stated: in PROBE_BW an ACK that finds the cycle over starts a    *)
(* new one in the UP phase, at gain 5/4, or 1.0 while lt_use_bw; the       *)
(* moves from UP to DOWN and from DOWN to CRUISE leave cycle_mstamp alone. *)
NewCycleAtProbeGain ==
    [][/\ CycleDue /\ (\E a \in ProbeBwAcks : IsAck(a)) =>
              /\ StartsCycle
              /\ sk'.pacing_gain =
                     IF sk'.lt_use_bw THEN BBRPLUS_UNIT
                     ELSE bbrplus_pacing_gain[BBRPLUS_BW_PROBE_UP]
       /\ PhaseStep(BBRPLUS_BW_PROBE_UP, BBRPLUS_BW_PROBE_DOWN) =>
              sk'.cycle_mstamp = sk.cycle_mstamp
       /\ PhaseStep(BBRPLUS_BW_PROBE_DOWN, BBRPLUS_BW_PROBE_CRUISE) =>
              sk'.cycle_mstamp = sk.cycle_mstamp]_vars

(* The handler is the round start on which the latched long-term bandwidth *)
(* expires.                                                                *)
LtExpires == sk.lt_use_bw /\ ~sk'.lt_use_bw

(* C27 as amended: in PROBE_BW an ACK that finds the cycle over, and on    *)
(* which the long-term bandwidth does not expire, starts a new cycle in    *)
(* the UP phase, at gain 5/4, or 1.0 while lt_use_bw or when the ACK goes  *)
(* on to enter PROBE_RTT; the moves from UP to DOWN and from DOWN to       *)
(* CRUISE leave cycle_mstamp alone.                                        *)
NewCycleUnlessProbeRtt ==
    [][/\ CycleDue /\ ~LtExpires /\ (\E a \in ProbeBwAcks : IsAck(a)) =>
              /\ StartsCycle
              /\ sk'.pacing_gain =
                     IF sk'.lt_use_bw \/ sk'.mode = BBRPLUS_PROBE_RTT
                     THEN BBRPLUS_UNIT
                     ELSE bbrplus_pacing_gain[BBRPLUS_BW_PROBE_UP]
       /\ PhaseStep(BBRPLUS_BW_PROBE_UP, BBRPLUS_BW_PROBE_DOWN) =>
              sk'.cycle_mstamp = sk.cycle_mstamp
       /\ PhaseStep(BBRPLUS_BW_PROBE_DOWN, BBRPLUS_BW_PROBE_CRUISE) =>
              sk'.cycle_mstamp = sk.cycle_mstamp]_vars

(* A second cycle has started 6 s after the first, which was of the        *)
(* shortest length, and PROBE_BW goes on.                                  *)
SecondCycleStarted ==
    /\ sk.mode = BBRPLUS_PROBE_BW
    /\ sk.cycle_idx = BBRPLUS_BW_PROBE_UP
    /\ sk.pacing_gain = bbrplus_pacing_gain[BBRPLUS_BW_PROBE_UP]
    /\ sk.cycle_len >= 2
    /\ sk.cycle_mstamp = 3 * Pace

(* What the bandwidth update maintains besides the round and the           *)
(* long-term state: the max filter and the state of ACK aggregation.       *)
BwState(s) ==
    << s.bw, s.rtt_cnt, s.extra_acked, s.extra_acked_win_rtts,
       s.extra_acked_win_idx, s.ack_epoch_acked, s.ack_epoch_mstamp >>

(* An ACK without a valid sample leaves the max filter, rtt_cnt, the       *)
(* long-term state and the aggregation state alone, ends with round_start  *)
(* false and still takes an RTT sample below the minimum.                  *)
InvalidSkipsBw(a) ==
    /\ BwState(sk') = BwState(sk)
    /\ LtState(sk') = LtState(sk)
    /\ ~sk'.round_start
    /\ a.rtt_us >= 0 /\ a.rtt_us < sk.min_rtt_us => sk'.min_rtt_us = a.rtt_us

(* C28 as stated: an ACK whose rate sample is invalid leaves the bw max    *)
(* filter, rtt_cnt, next_rtt_delivered, packet_conservation, the LT state  *)
(* and the ACK-aggregation state unchanged and ends with round_start       *)
(* false, while the min-RTT update still runs.                             *)
InvalidSampleFrame ==
    [][\A a \in InvalidAcks :
           \/ a.interval_us > 0
           \/ ~IsAck(a)
           \/ /\ InvalidSkipsBw(a)
              /\ sk'.next_rtt_delivered = sk.next_rtt_delivered
              /\ sk'.packet_conservation = sk.packet_conservation]_vars

(* ACK a starts the timer of PROBE_RTT: the mode is PROBE_RTT, entered on   *)
(* this ACK or with the timer not yet started, and the packets in flight   *)
(* have come down to the minimum target.                                   *)
StartsProbeRttTimer(a) ==
    /\ sk'.mode = BBRPLUS_PROBE_RTT
    /\ sk.mode # BBRPLUS_PROBE_RTT \/ sk.probe_rtt_done_stamp = 0
    /\ a.packets_in_flight <= bbrplus_cwnd_min_target

(* C28 as amended: the same, except that an invalid-sample ACK sets        *)
(* next_rtt_delivered := delivered when it starts the timer of PROBE_RTT   *)
(* or, with acked_sacked > 0, enters Recovery, that the latter also sets   *)
(* packet_conservation, and that one with acked_sacked > 0 that leaves     *)
(* Recovery clears packet_conservation.                                    *)
InvalidSampleFrameButRecovery ==
    [][\A a \in InvalidAcks :
           \/ a.interval_us > 0
           \/ ~IsAck(a)
           \/ LET entering == /\ a.acked_sacked > 0
                              /\ sk.icsk_ca_state = TCP_CA_Recovery
                              /\ sk.prev_ca_state # TCP_CA_Recovery
                  exiting  == /\ a.acked_sacked > 0
                              /\ sk.prev_ca_state >= TCP_CA_Recovery
                              /\ sk.icsk_ca_state < TCP_CA_Recovery
              IN  /\ InvalidSkipsBw(a)
                  /\ sk'.next_rtt_delivered =
                         IF entering \/ StartsProbeRttTimer(a)
                         THEN sk'.delivered
                         ELSE sk.next_rtt_delivered
                  /\ sk'.packet_conservation =
                         IF entering THEN TRUE
                         ELSE IF exiting THEN FALSE
                         ELSE sk.packet_conservation]_vars

(* Only ACKs without a valid sample have delivered data: no round was      *)
(* counted and the max filter is empty, yet the minimum RTT was lowered    *)
(* and the window has grown.                                               *)
InvalidAcksPublished ==
    /\ sk.delivered > 0
    /\ sk.rtt_cnt = 0
    /\ bbrplus_max_bw(sk) = 0
    /\ sk.min_rtt_us = Rtt \div 2
    /\ sk.snd_cwnd > TCP_INIT_CWND

(* The long-term state after an event that opened an interval of cnt       *)
(* rounds: the start of the interval is the delivery state after the       *)
(* event, and lt_bw is kept.                                               *)
LtArmed(cnt) ==
    LtState(sk') = << TRUE, cnt, FALSE, sk.lt_bw, sk'.delivered,
                      sk'.delivered_mstamp \div USEC_PER_MSEC, sk'.lost >>

(* An event that reports a loss: a lossy ACK or an RTO.                    *)
LossEvent ==
    \/ SetState(TCP_CA_Loss, 0)
    \/ \E a \in ArmAcks : a.losses > 0 /\ IsAck(a)

(* An ACK without a loss leaves the long-term state alone.                 *)
LossFreeAckKeepsLt ==
    \A a \in ArmAcks : a.losses > 0 \/ ~IsAck(a) \/ LtState(sk') = LtState(sk)

(* C29 as stated: while lt_use_bw and lt_is_sampling are both false, an    *)
(* event without losses leaves the LT state unchanged, and lt_is_sampling  *)
(* becomes true only on an event with losses, which snapshots the start of *)
(* the interval and leaves lt_rtt_cnt at 0.                                *)
LtArmsAtZero ==
    [][~sk.lt_use_bw /\ ~sk.lt_is_sampling =>
           /\ LossFreeAckKeepsLt
           /\ sk'.lt_is_sampling => LossEvent /\ LtArmed(0)]_vars

(* C29 as amended: the same, except that lt_rtt_cnt is 1 after an event    *)
(* that starts a round (an RTO always does) and 0 otherwise; a lossy ACK   *)
(* with an invalid sample changes nothing, a lossy app-limited ACK with a  *)
(* valid sample snapshots the start of the interval but leaves the         *)
(* sampling off, and every other lossy event opens an interval.            *)
LtArmsCountingTheRound ==
    [][~sk.lt_use_bw /\ ~sk.lt_is_sampling =>
           /\ sk'.lt_is_sampling =>
                  LossEvent /\ LtArmed(IF sk'.round_start THEN 1 ELSE 0)
           /\ SetState(TCP_CA_Loss, 0) => sk'.lt_is_sampling /\ sk'.round_start
           /\ \A a \in ArmAcks :
                  \/ ~IsAck(a)
                  \/ IF a.losses = 0 \/ a.interval_us <= 0
                     THEN LtState(sk') = LtState(sk)
                     ELSE IF a.is_app_limited
                     THEN LtState(sk') =
                              << FALSE, 0, FALSE, 0, sk'.delivered,
                                 sk'.delivered_mstamp \div USEC_PER_MSEC,
                                 sk'.lost >>
                     ELSE sk'.lt_is_sampling]_vars

(* A lossy ACK that started a round has opened an interval after data was  *)
(* delivered: the interval starts at the current delivery state and has    *)
(* already counted one round.                                              *)
LtArmedOnRoundStart ==
    /\ sk.lt_is_sampling
    /\ sk.round_start
    /\ sk.lt_rtt_cnt = 1
    /\ sk.icsk_ca_state = TCP_CA_Open
    /\ sk.delivered > 1
    /\ sk.lt_last_delivered = sk.delivered
    /\ sk.lt_last_lost = sk.lost
    /\ sk.lost > 0

(* The long-term state after a full reset: nothing latched, no interval    *)
(* open, lt_bw forgotten and the next interval to start from the delivery  *)
(* state after the event.                                                  *)
LtFullyReset ==
    LtState(sk') = << FALSE, 0, FALSE, 0, sk'.delivered,
                      sk'.delivered_mstamp \div USEC_PER_MSEC, sk'.lost >>

(* lt_use_bw is latched only at the end of an interval that follows one    *)
(* whose rate is still kept in lt_bw, and never by an app-limited ACK.     *)
LatchNeedsTwoIntervals ==
    ~sk.lt_use_bw /\ sk'.lt_use_bw =>
        /\ sk.lt_is_sampling
        /\ sk.lt_bw # 0
        /\ \A a \in LimitedAcks : ~a.is_app_limited \/ ~IsAck(a)

(* C30 as stated: while an interval is open and lt_use_bw is false an      *)
(* app-limited ACK resets the long-term state fully, so that lt_use_bw is  *)
(* never latched across an app-limited sample; an app-limited ACK that     *)
(* finds lt_use_bw latched does not reset it.                              *)
AppLimitedResetsLt ==
    [][/\ LatchNeedsTwoIntervals
       /\ \A a \in LimitedAcks :
              \/ ~a.is_app_limited
              \/ ~IsAck(a)
              \/ IF sk.lt_use_bw
                 THEN sk'.lt_use_bw /\ sk'.lt_bw = sk.lt_bw
                 ELSE sk.lt_is_sampling => LtFullyReset]_vars

(* C30 as amended: the same for an app-limited ACK with a valid sample; one *)
(* with an invalid sample leaves the long-term state as it is, and an      *)
(* app-limited ACK that finds lt_use_bw latched resets the long-term state *)
(* fully when it is the 48th round counted in PROBE_BW, and otherwise      *)
(* keeps lt_use_bw and lt_bw.                                              *)
AppLimitedValidResetsLt ==
    [][/\ LatchNeedsTwoIntervals
       /\ \A a \in LimitedAcks :
              \/ ~a.is_app_limited
              \/ ~IsAck(a)
              \/ IF a.interval_us <= 0
                 THEN LtState(sk') = LtState(sk)
                 ELSE IF sk.lt_use_bw
                 THEN IF /\ sk.mode = BBRPLUS_PROBE_BW
                         /\ sk'.round_start
                         /\ sk.lt_rtt_cnt + 1 >= bbrplus_lt_bw_max_rtts
                      THEN LtFullyReset
                      ELSE sk'.lt_use_bw /\ sk'.lt_bw = sk.lt_bw
                 ELSE sk.lt_is_sampling => LtFullyReset]_vars

(* An app-limited ACK has cut an interval short in STARTUP: no interval is *)
(* open, lt_bw is 0, and the start of the next interval is the current     *)
(* delivery state, with packets delivered and lost.                        *)
IntervalCutByAppLimited ==
    /\ sk.mode = BBRPLUS_STARTUP
    /\ ~sk.lt_is_sampling
    /\ ~sk.lt_use_bw
    /\ sk.lt_bw = 0
    /\ sk.lt_rtt_cnt = 0
    /\ sk.delivered > 1
    /\ sk.lt_last_delivered = sk.delivered
    /\ sk.lt_last_lost = sk.lost
    /\ sk.lost > 0

(* An open interval is finalized: its bandwidth is taken, and either lt_bw *)
(* is latched or the next interval starts at the current delivery state.   *)
LtFinalized ==
    /\ sk.lt_is_sampling
    /\ ~sk.lt_use_bw
    /\ \/ sk'.lt_use_bw
       \/ sk'.lt_is_sampling /\ sk'.lt_last_delivered # sk.lt_last_delivered

(* A loss event finds an open interval of 4 to 16 rounds with packets      *)
(* delivered and a loss rate of at least 50/256.                           *)
LtIntervalReady ==
    /\ sk.lt_is_sampling
    /\ ~sk.lt_use_bw
    /\ sk'.lost > sk.lost \/ SetState(TCP_CA_Loss, 0)
    /\ LtRounds >= bbrplus_lt_intvl_min_rtts
    /\ LtRounds <= 4 * bbrplus_lt_intvl_min_rtts
    /\ LtDelivered > 0
    /\ LtLost * BBRPLUS_UNIT >= bbrplus_lt_loss_thresh * LtDelivered

(* The event only counts its round in the open interval.                   *)
LtDeferred ==
    LtState(sk') = LtState([sk EXCEPT !.lt_rtt_cnt = LtRounds])

(* What holds of the rounds of an interval: it is finalized only with 4 to *)
(* 16 rounds, more than 16 rounds reset the long-term state fully, and     *)
(* lt_rtt_cnt is at most 16 after every event while lt_use_bw is false.    *)
LtRoundBounds ==
    /\ LtFinalized =>
           /\ LtRounds >= bbrplus_lt_intvl_min_rtts
           /\ LtRounds <= 4 * bbrplus_lt_intvl_min_rtts
    /\ sk.lt_is_sampling /\ ~sk.lt_use_bw
           /\ LtRounds > 4 * bbrplus_lt_intvl_min_rtts => LtFullyReset
    /\ ~sk'.lt_use_bw => sk'.lt_rtt_cnt <= 4 * bbrplus_lt_intvl_min_rtts

(* C31: an interval is finalized only with 4 to 16 rounds and more than 16 *)
(* rounds reset the long-term state fully; an interval that could end and  *)
(* has lasted t >= 2^32 / 1000 ms (t the u32 difference of the millisecond *)
(* stamps, negative here from 2^31 on) resets it too, and one of t < 1 ms  *)
(* only defers; lt_rtt_cnt <= 16 after every event while lt_use_bw is      *)
(* false.                                                                  *)
LtIntervalTooLongResets ==
    [][/\ LtRoundBounds
       /\ LtIntervalReady /\ (LtMsecs < 0 \/ LtMsecs >= 4294967) => LtFullyReset
       /\ LtIntervalReady /\ LtMsecs = 0 => LtDeferred]_vars

(* What the code does with the length of an interval that could end: from  *)
(* 4294967 ms up to 2^31 - 1 ms it resets the long-term state fully, below *)
(* 1 ms as a signed number (0 ms, or 2^31 ms and more) it defers, and      *)
(* otherwise it finalizes the interval.                                    *)
LtIntervalLengthRule ==
    [][/\ LtRoundBounds
       /\ LtIntervalReady /\ LtMsecs >= 4294967 => LtFullyReset
       /\ LtIntervalReady /\ LtMsecs < 1 => LtDeferred
       /\ LtIntervalReady /\ LtMsecs >= 1 /\ LtMsecs < 4294967 => LtFinalized]_vars

(* A loss event found an interval of 4 to 16 rounds open for 2^32 - 1 ms   *)
(* and left it open.                                                       *)
LtWrappedIntervalLeftOpen ==
    /\ sk.lt_is_sampling
    /\ sk.lt_last_stamp = 1
    /\ sk.delivered_mstamp = 0
    /\ sk.delivered > sk.lt_last_delivered
    /\ sk.lost > sk.lt_last_lost
    /\ sk.lt_rtt_cnt >= bbrplus_lt_intvl_min_rtts

(***************************************************************************)
(* C32: idle_restart suppresses the entry of PROBE_RTT for exactly the     *)
(* next ACK.                                                               *)
(***************************************************************************)
(* An ACK with a measured RTT that finds the window expired takes the      *)
(* measurement as the new minimum, stamped now.                            *)
MinRttRefreshed(a) ==
    (FilterExpired /\ a.rtt_us >= 0) =>
        /\ sk'.min_rtt_us = a.rtt_us
        /\ sk'.min_rtt_stamp = tcp_jiffies32(sk')

(* C32 as stated: an ACK that finds the min-RTT window expired while       *)
(* idle_restart is set leaves the mode as it was and refreshes the minimum *)
(* RTT if an RTT was measured, and every ACK ends with idle_restart clear. *)
IdleRestartKeepsMode ==
    [][\A a \in RestartAcks :
           \/ ~IsAck(a)
           \/ /\ ~sk'.idle_restart
              /\ MinRttRefreshed(a)
              /\ (FilterExpired /\ sk.idle_restart) => sk'.mode = sk.mode]_vars

(* C32, amended: an ACK that finds the min-RTT window expired while        *)
(* idle_restart is set does not enter PROBE_RTT, though it may leave       *)
(* STARTUP or DRAIN on the full-pipe and drain checks and may leave a      *)
(* PROBE_RTT already under way; it refreshes the minimum RTT if an RTT was *)
(* measured; every ACK ends with idle_restart clear, and an ACK that finds *)
(* the window expired outside PROBE_RTT without idle_restart enters        *)
(* PROBE_RTT.                                                              *)
IdleRestartSuppressesProbeRtt ==
    [][\A a \in RestartAcks :
           \/ ~IsAck(a)
           \/ /\ ~sk'.idle_restart
              /\ MinRttRefreshed(a)
              /\ (FilterExpired /\ sk.idle_restart) =>
                     /\ sk.mode # BBRPLUS_PROBE_RTT =>
                            sk'.mode # BBRPLUS_PROBE_RTT
                     /\ sk'.mode # sk.mode =>
                            \/ sk.mode = BBRPLUS_PROBE_RTT
                            \/ /\ sk.mode \in {BBRPLUS_STARTUP, BBRPLUS_DRAIN}
                               /\ sk'.mode \in {BBRPLUS_DRAIN, BBRPLUS_PROBE_BW}
              /\ ProbeRttDue => sk'.mode = BBRPLUS_PROBE_RTT]_vars

(* Witness for C32: an ACK has just left the connection outside PROBE_RTT  *)
(* although the min-RTT window is still expired: idle_restart held the     *)
(* entry back.                                                             *)
ProbeRttHeldBack ==
    /\ ~sk.idle_restart
    /\ sk.mode # BBRPLUS_PROBE_RTT
    /\ sk.delivered > 0
    /\ after(tcp_jiffies32(sk), sk.min_rtt_stamp + bbrplus_min_rtt_win_sec * HZ)

(***************************************************************************)
(* C33: every value stored into a width-limited field fits its width.      *)
(***************************************************************************)
(* The bit-fields of struct bbrplus hold values within their widths.       *)
WidthBounds(s) ==
    /\ s.lt_rtt_cnt \in 0 .. 127
    /\ s.full_bw_cnt \in 0 .. 7
    /\ s.cycle_len \in 0 .. 15
    /\ s.tso_segs_goal \in 0 .. 127
    /\ s.extra_acked_win_rtts \in 0 .. 31
    /\ s.ack_epoch_acked \in 0 .. 1048575

(* The socket as bbrplus_update_ack_aggregation finds it during ACK a.     *)
AggregationEntry(a) ==
    bbrplus_update_bw(tcp_ack(sk, a), RateSample(sk, a), HostEnv(a))

(* The packets expected over the epoch at the subtraction of ACK a: none   *)
(* if the epoch restarts with this ACK.                                    *)
ExpectedAcked(a) ==
    LET s == AggregationEntry(a)
        expected == MulShr(bbrplus_bw(s),
                           tcp_stamp_us_delta(s.delivered_mstamp,
                                              s.ack_epoch_mstamp), BW_SCALE)
    IN  IF \/ s.ack_epoch_acked <= expected
           \/ s.ack_epoch_acked + a.acked_sacked
                  >= bbrplus_ack_epoch_acked_reset_thresh
        THEN 0 ELSE expected

(* The excess ACK a computes: min(ack_epoch_acked - expected, snd_cwnd).   *)
ExcessAcked(a) ==
    Min(sk'.ack_epoch_acked - ExpectedAcked(a), sk.snd_cwnd)

(* The slot of extra_acked in use after a handler.                         *)
ExtraAckedSlot == sk'.extra_acked[sk'.extra_acked_win_idx + 1]

(* C33 as stated: after every ACK the bit-fields are within their widths,  *)
(* ack_epoch_acked is at least the expected count at the subtraction, and  *)
(* the slot of extra_acked holds the excess computed if that is its new    *)
(* maximum: it is never less than the excess.                              *)
ExtraAckedStoredExactly ==
    [][\A a \in WideAcks :
           \/ ~IsAck(a)
           \/ /\ WidthBounds(sk')
              /\ sk'.ack_epoch_acked >= ExpectedAcked(a)
              /\ ExtraAckedSlot >= ExcessAcked(a)]_vars

(* What the code does: the fields are within their widths and the          *)
(* subtraction does not wrap, and the slot takes the low 16 bits of an     *)
(* excess above its value.                                                 *)
ExtraAckedStoredModulo ==
    [][\A a \in WideAcks :
           \/ ~IsAck(a)
           \/ /\ WidthBounds(sk')
              /\ sk'.ack_epoch_acked >= ExpectedAcked(a)
              /\ \/ ExtraAckedSlot >= ExcessAcked(a)
                 \/ ExtraAckedSlot = ExcessAcked(a) % 65536]_vars

(***************************************************************************)
(* C34: the edges of the mode machine.                                     *)
(***************************************************************************)
ModeEdges ==
    { << BBRPLUS_STARTUP, BBRPLUS_DRAIN >>,
      << BBRPLUS_STARTUP, BBRPLUS_PROBE_BW >>,
      << BBRPLUS_DRAIN, BBRPLUS_PROBE_BW >>,
      << BBRPLUS_STARTUP, BBRPLUS_PROBE_RTT >>,
      << BBRPLUS_DRAIN, BBRPLUS_PROBE_RTT >>,
      << BBRPLUS_PROBE_BW, BBRPLUS_PROBE_RTT >>,
      << BBRPLUS_PROBE_RTT, BBRPLUS_STARTUP >>,
      << BBRPLUS_PROBE_RTT, BBRPLUS_PROBE_BW >> }

(* The handler just run is one of cwnd_event, set_state, ssthresh and      *)
(* undo_cwnd.                                                              *)
OtherHook ==
    \/ \E event \in CaEvents, mark \in BOOLEAN : CwndEvent(event, mark)
    \/ \E new_state \in CaStates : SetState(new_state, 0)
    \/ Ssthresh
    \/ UndoCwnd

(* C34: a handler changes the mode only along STARTUP to DRAIN, STARTUP to *)
(* PROBE_BW, DRAIN to PROBE_BW, STARTUP, DRAIN or PROBE_BW to PROBE_RTT,   *)
(* PROBE_RTT to STARTUP and PROBE_RTT to PROBE_BW, and cwnd_event,         *)
(* set_state, ssthresh and undo_cwnd leave the mode as it is.              *)
ModeChangesAlongEdges ==
    [][/\ sk'.mode # sk.mode => << sk.mode, sk'.mode >> \in ModeEdges
       /\ OtherHook => sk'.mode = sk.mode]_vars

(* Witness for C34: PROBE_RTT has been entered and left again, to STARTUP  *)
(* or PROBE_BW, and an RTO has been reported since the connection began.   *)
ModeBackFromProbeRtt ==
    /\ sk.mode \in {BBRPLUS_STARTUP, BBRPLUS_PROBE_BW}
    /\ sk.probe_rtt_done_stamp # 0
    /\ sk.prev_ca_state = TCP_CA_Loss

(***************************************************************************)
(* C35: the mode agrees with the full-pipe detection.                      *)
(***************************************************************************)
(* STARTUP is the mode of a pipe not yet found full, DRAIN and PROBE_BW    *)
(* those of a pipe found full.                                             *)
ModeMatchesFullBw(s) ==
    /\ s.mode = BBRPLUS_STARTUP => ~bbrplus_full_bw_reached(s)
    /\ s.mode \in {BBRPLUS_DRAIN, BBRPLUS_PROBE_BW} =>
           bbrplus_full_bw_reached(s)

(* C35: after every handler the mode is STARTUP only if the pipe has not   *)
(* been found full and DRAIN or PROBE_BW only if it has; an ACK that finds *)
(* the pipe full in STARTUP leaves STARTUP, and once the pipe has been     *)
(* found full the mode is never STARTUP again.                             *)
ModeFollowsFullBw ==
    [][/\ ModeMatchesFullBw(sk')
       /\ (sk.mode = BBRPLUS_STARTUP /\ bbrplus_full_bw_reached(sk')) =>
              sk'.mode # BBRPLUS_STARTUP
       /\ bbrplus_full_bw_reached(sk) =>
              /\ bbrplus_full_bw_reached(sk')
              /\ sk'.mode # BBRPLUS_STARTUP]_vars

(* Witness for C35: an ACK has just left PROBE_RTT with the pipe found     *)
(* full, for PROBE_BW.                                                     *)
FullPipeAfterProbeRtt ==
    /\ sk.mode = BBRPLUS_PROBE_BW
    /\ bbrplus_full_bw_reached(sk)
    /\ sk.probe_rtt_done_stamp # 0
    /\ sk.min_rtt_stamp = tcp_jiffies32(sk)

(***************************************************************************)
(* C36: in PROBE_BW without a long-term rate the pacing gain is that of    *)
(* the phase.                                                              *)
(***************************************************************************)
(* C36: whenever the mode is PROBE_BW and lt_use_bw is clear, pacing_gain  *)
(* is the entry of the gain table at cycle_idx, hence 5/4, 3/4 or 1.       *)
GainFromCycleTable ==
    (sk.mode = BBRPLUS_PROBE_BW /\ ~sk.lt_use_bw) =>
        /\ sk.pacing_gain = bbrplus_pacing_gain[sk.cycle_idx]
        /\ sk.pacing_gain \in {320, 192, BBRPLUS_UNIT}

(* Witness for C36: PROBE_BW without a long-term rate in the DOWN phase,   *)
(* pacing at 3/4.                                                          *)
ProbeBwDownPhase ==
    /\ sk.mode = BBRPLUS_PROBE_BW
    /\ ~sk.lt_use_bw
    /\ sk.cycle_idx = BBRPLUS_BW_PROBE_DOWN
    /\ sk.pacing_gain = 192

(***************************************************************************)
(* C37: the congestion window never falls below one packet.                *)
(***************************************************************************)
(* C37: with a window clamp and an initial window of at least 1, snd_cwnd  *)
(* is at least 1 after every handler, and at most the clamp.               *)
CwndAtLeastOne ==
    /\ sk.snd_cwnd >= 1
    /\ sk.snd_cwnd <= sk.snd_cwnd_clamp

(* Witness for C37: under packet conservation, after as many losses as the *)
(* window held packets, the window is one packet below a clamp of 20.      *)
CwndDownToOne ==
    /\ sk.snd_cwnd = 1
    /\ sk.snd_cwnd_clamp = 20
    /\ sk.packet_conservation
    /\ sk.lost >= 1

(***************************************************************************)
(* C38: PROBE_RTT ends.                                                    *)
(***************************************************************************)
(* How far PROBE_RTT is from its end: 2 until its timer is armed, 1 while  *)
(* the timer runs, 0 once PROBE_RTT is left.                               *)
ProbeRttRank(s) ==
    IF s.mode # BBRPLUS_PROBE_RTT THEN 0
    ELSE IF s.probe_rtt_done_stamp # 0 THEN 1
    ELSE 2

(* C38: while PROBE_RTT is under way, an ACK that comes a tick after the   *)
(* one before, starts a round and finds in-flight data at the floor brings *)
(* PROBE_RTT nearer to its end, arming the timer or leaving the mode, and  *)
(* no other ACK, restart of transmission or RTO takes it further from its  *)
(* end; so PROBE_RTT is left after at most two such ACKs, whatever comes   *)
(* in between, and it is left for STARTUP or PROBE_BW.                     *)
ProbeRttTerminates ==
    [][sk.mode = BBRPLUS_PROBE_RTT =>
           /\ ProbeRttRank(sk') <= ProbeRttRank(sk)
           /\ ProbeRttAck => ProbeRttRank(sk') < ProbeRttRank(sk)
           /\ sk'.mode \in {BBRPLUS_PROBE_RTT, BBRPLUS_STARTUP,
                            BBRPLUS_PROBE_BW}]_vars

(* Witness for C38: PROBE_RTT has been left after an RTO, later than the   *)
(* other ACKs come.                                                        *)
ProbeRttLeftAfterLoss ==
    /\ sk.mode # BBRPLUS_PROBE_RTT
    /\ sk.probe_rtt_done_stamp # 0
    /\ sk.prev_ca_state = TCP_CA_Loss
    /\ sk.tcp_mstamp > MaxTicks * Tick

(***************************************************************************)
(* C39: the long-term bandwidth in use is not zero.                        *)
(***************************************************************************)
(* C39: whenever lt_use_bw is set, lt_bw is not zero, and so the bandwidth *)
(* estimate bbrplus_bw hands to the pacing rate and the cwnd is not zero.  *)
LtBwInUseNonzero ==
    sk.lt_use_bw =>
        /\ sk.lt_bw # 0
        /\ bbrplus_bw(sk) # 0

====
